---- MODULE Spec2Model ----
(***************************************************************************)
(* Schema construction core of graphql-api: the memoizing type mapper       *)
(* (graphql_api/mapper.py), the schema reducer (graphql_api/reduce.py) and  *)
(* the schema assembler GraphQLAPI.build_schema (graphql_api/api.py).       *)
(*                                                                         *)
(* GraphQL type objects live in a heap and are identified by their index,   *)
(* so "the same object by reference" is equality of heap ids.  Registries   *)
(* are heap cells of their own because mappers share or copy them.  The     *)
(* mapper and the reducer are operators over a world record                 *)
(* [heap, regs, mappers]; every action applies one public operation to the  *)
(* world held in the variables.                                             *)
(***************************************************************************)
EXTENDS Integers, Sequences, FiniteSets, TLC

\* ------------------------------------------------------------------------
\* Bounds
\* ------------------------------------------------------------------------
\* number of build_schema calls that really build (cache misses or ignore_cache)
MaxBuilds == 2
\* number of direct map() calls made on the stand-alone mappers
MaxMapCalls == 3
\* number of nested map() calls the interpreter's stack has room for
RecursionLimit == 4

\* ------------------------------------------------------------------------
\* Declarations: the annotated classes a schema is built from
\* ------------------------------------------------------------------------
\* A slot is one possible member of one class.  Its option says how the
\* member is declared:
\*   "absent" not declared          "F"  @field, no metadata
\*   "F1"     @field({"tags": ["t1"]})   "F2"  @field({"tags": ["t2"]})
\*   "M"      @field(mutable=True)  "X"  @field declared "-> None"
\*   "U"      a method without decorator
\*   "N"      @field, no return annotation
\*   "O"      @field declared "-> Optional[T]", T the slot's return type
\*   "P"      a property: getter @field, setter @field(mutable=True)
\*   "Pg"     a property: getter @field, no setter
SlotOptions ==
    [ Ra |-> {"absent", "F", "F1", "M"},
      Rs |-> {"absent", "F", "F2"},
      Ab |-> {"absent", "F", "F1", "M"},
      As |-> {"absent", "F", "F2"},
      Bs |-> {"absent", "F", "F1", "M", "X"},
      Ri |-> {"absent"},
      Rr |-> {"absent"},
      Ao |-> {"absent"},
      Rg |-> {"absent"},
      Rv |-> {"absent"},
      Vs |-> {"absent"} ]

Decls ==
    [ Ra : SlotOptions.Ra, Rs : SlotOptions.Rs, Ab : SlotOptions.Ab,
      As : SlotOptions.As, Bs : SlotOptions.Bs, Ri : SlotOptions.Ri,
      Rr : SlotOptions.Rr, Ao : SlotOptions.Ao, Rg : SlotOptions.Rg,
      Rv : SlotOptions.Rv, Vs : SlotOptions.Vs, applied : {<< >>},
      iface : BOOLEAN ]

\* the filter lists an API can be configured with; the empty list stands for
\* "no filters" (None and [] are both falsy wherever the code tests them)
FilterConfigs == { <<>>, << {"t1"} >>, << {"t1"}, {"t2"} >> }

\* owner class, member key and declared return type of every slot
SlotInfo ==
    [ Ra |-> [cls |-> "Root", key |-> "a",     ret |-> "A"],
      Rs |-> [cls |-> "Root", key |-> "s",     ret |-> "str"],
      Ab |-> [cls |-> "A",    key |-> "sub_b", ret |-> "B"],
      As |-> [cls |-> "A",    key |-> "s",     ret |-> "B"],
      Bs |-> [cls |-> "B",    key |-> "s",     ret |-> "E"],
      Ri |-> [cls |-> "Root", key |-> "increment", ret |-> "int"],
      Rr |-> [cls |-> "Root", key |-> "root",  ret |-> "Root"],
      Ao |-> [cls |-> "A",    key |-> "owner", ret |-> "Root"],
      Rg |-> [cls |-> "Root", key |-> "greet", ret |-> "str"],
      Rv |-> [cls |-> "Root", key |-> "_service", ret |-> "_Service"],
      Vs |-> [cls |-> "_Service", key |-> "sdl", ret |-> "str"] ]

SlotNames == {"Ra", "Rs", "Ab", "As", "Bs", "Ri", "Rr", "Ao", "Rg", "Rv", "Vs"}

\* member keys in the order inspect.getmembers lists them (sorted by name)
SortedKeys ==
    << "_service", "a", "greet", "increment", "owner", "root", "s", "sdl",
       "sub_b" >>

\* ------------------------------------------------------------------------
\* Name casing (graphql_api.utils)
\* ------------------------------------------------------------------------
to_camel_case == [ a |-> "a", increment |-> "increment", s |-> "s",
                   sub_b |-> "subB", owner |-> "owner", root |-> "root",
                   reports |-> "reports", greet |-> "greet", who |-> "who",
                   to_item |-> "toItem", _service |-> "_service",
                   sdl |-> "sdl" ]

to_snake_case == [ a |-> "a", increment |-> "increment", s |-> "s",
                   greet |-> "greet", _service |-> "_service", sdl |-> "sdl",
                   owner |-> "owner", root |-> "root", reports |-> "reports",
                   subB |-> "sub_b", sub_b |-> "sub_b",
                   _schema |-> "_schema", placeholder |-> "placeholder" ]

\* ------------------------------------------------------------------------
\* Annotation registry (tag_value / get_value / is_graphql)
\* ------------------------------------------------------------------------
\* str(Optional[T]) for the return types a slot can declare
Optional == [ A |-> "Optional[A]", B |-> "Optional[B]", E |-> "Optional[E]",
              str |-> "Optional[str]", int |-> "Optional[int]" ]

\* typing_inspect.get_args of such a union, without the none-type
OptionalArg ==
    [ u \in { Optional[c] : c \in DOMAIN Optional } |->
        CHOOSE c \in DOMAIN Optional : Optional[c] = u ]

\* (first, a test that takes no type for such a union)
IsOptionalNever(n) == FALSE

\* is_union_type(T) with type(None) among the union's arguments
IsOptional(n) == n \in DOMAIN OptionalArg

\* str(List[T]) for the element types a model field can declare
ListOf == [ Employee |-> "List[Employee]", str |-> "List[str]" ]

\* typing_inspect.get_args of such a list type
ListArg ==
    [ l \in { ListOf[c] : c \in DOMAIN ListOf } |->
        CHOOSE c \in DOMAIN ListOf : ListOf[c] = l ]

\* the pydantic models: Dept declares s: str and reports: List[str],
\* Employee declares s: str and reports: List["Employee"]
model_fields ==
    [ Dept     |-> << [name |-> "s", annotation |-> "str"],
                      [name |-> "reports", annotation |-> "List[str]"] >>,
      Employee |-> << [name |-> "s", annotation |-> "str"],
                      [name |-> "reports", annotation |-> "List[Employee]"] >> ]

\* issubclass(type_, BaseModel)
type_is_pydantic_model(c) == c \in DOMAIN model_fields

\* the record tag_value stores for a function declared with option opt; a
\* function without decorator has no record and its graphql_type reads ""
TagValue(slot, opt) ==
    [ key          |-> SlotInfo[slot].key,
      graphql_type |-> IF opt = "M" THEN "mutable_field"
                       ELSE IF opt = "U" THEN "" ELSE "field",
      ret          |-> IF opt = "X" THEN "NoneType"
                       ELSE IF opt = "N" THEN ""
                       ELSE IF opt = "O" THEN Optional[SlotInfo[slot].ret]
                       ELSE SlotInfo[slot].ret,
      tags         |-> IF opt = "F1" THEN {"t1"} ELSE IF opt = "F2" THEN {"t2"} ELSE {},
      defined_on   |-> SlotInfo[slot].cls ]

\* a property without setter has fset = None
NoFunc == [ key |-> "", graphql_type |-> "", ret |-> "", tags |-> {},
            defined_on |-> "" ]

\* a class attribute as inspect.getmembers lists it: a function (held in
\* func) or a property (func holds its fget, fset its setter)
Member(slot, opt) ==
    [ key      |-> SlotInfo[slot].key,
      property |-> opt \in {"P", "Pg"},
      func     |-> TagValue(slot, IF opt \in {"P", "Pg"} THEN "F" ELSE opt),
      fset     |-> IF opt = "P" THEN TagValue(slot, "M") ELSE NoFunc ]

\* the interface class I declares the one member s (a plain @field)
InterfaceMember ==
    [ key |-> "s", property |-> FALSE,
      func |-> [ key |-> "s", graphql_type |-> "field", ret |-> "B", tags |-> {},
                 defined_on |-> "I" ],
      fset |-> NoFunc ]

\* the members a class body declares itself, as a set of records
OwnMembers(d, c) ==
    IF c = "I" THEN {InterfaceMember}
    ELSE { Member(sl, d[sl]) : sl \in { x \in SlotNames :
                                 SlotInfo[x].cls = c /\ d[x] # "absent" } }

\* class_type.mro() without object
Mro(d, c) == IF c = "A" /\ d.iface THEN << "A", "I" >> ELSE << c >>

\* class_type.__subclasses__()
Subclasses(d, c) == IF c = "I" /\ d.iface THEN << "A" >> ELSE << >>

is_interface(d, c) == c = "I"

is_abstract(d, c) == FALSE

\* attribute lookup along the MRO: the most derived definition of key k
RECURSIVE LookupFrom(_, _, _, _)
LookupFrom(d, mro, i, k) ==
    IF i > Len(mro) THEN {}
    ELSE LET own == { m \in OwnMembers(d, mro[i]) : m.key = k }
         IN  IF own # {} THEN own ELSE LookupFrom(d, mro, i + 1, k)

\* inspect.getmembers(cls): every attribute of cls, inherited ones included,
\* sorted by name
RECURSIVE GetMembersFrom(_, _, _)
GetMembersFrom(d, c, i) ==
    IF i > Len(SortedKeys) THEN << >>
    ELSE LET found == LookupFrom(d, Mro(d, c), 1, SortedKeys[i])
         IN  (IF found = {} THEN << >> ELSE << CHOOSE m \in found : TRUE >>)
             \o GetMembersFrom(d, c, i + 1)

GetMembers(d, c) == GetMembersFrom(d, c, 1)

\* the first loop of get_class_funcs: walk the MRO and keep, for every key,
\* the first member seen
RECURSIVE AppendUnseen(_, _, _)
AppendUnseen(members, new, i) ==
    IF i > Len(new) THEN members
    ELSE AppendUnseen(
           IF \E j \in 1..Len(members) : members[j].key = new[i].key
           THEN members ELSE Append(members, new[i]),
           new, i + 1)

RECURSIVE CollectMembers(_, _, _, _)
CollectMembers(d, mro, i, members) ==
    IF i > Len(mro) THEN members
    ELSE CollectMembers(d, mro, i + 1,
                        AppendUnseen(members, GetMembers(d, mro[i]), 1))

_matches_criterion(member, mutable) ==
    member.graphql_type = "field"
      \/ (mutable /\ member.graphql_type = "mutable_field")

\* the second loop of get_class_funcs: a property contributes its getter
\* and, in the mutable flavor, its setter, in that order; a function
\* contributes itself; each only if it is marked and matches the flavor
RECURSIVE ProcessMembers(_, _, _)
ProcessMembers(members, mutable, i) ==
    IF i > Len(members) THEN << >>
    ELSE
      LET member == members[i]
          getter == IF _matches_criterion(member.func, mutable)
                    THEN << member.func >> ELSE << >>
          setter == IF member.property /\ mutable /\ member.fset # NoFunc
                       /\ _matches_criterion(member.fset, mutable)
                    THEN << member.fset >> ELSE << >>
      IN  getter \o setter \o ProcessMembers(members, mutable, i + 1)

\* the last loop of get_class_funcs: the first entry of every key is kept
RECURSIVE FirstPerKey(_, _, _)
FirstPerKey(processed, i, final) ==
    IF i > Len(processed) THEN final
    ELSE FirstPerKey(processed, i + 1,
           IF \E j \in 1..Len(final) : final[j].key = processed[i].key
           THEN final ELSE Append(final, processed[i]))

get_class_funcs(d, c, mutable) ==
    FirstPerKey(ProcessMembers(CollectMembers(d, Mro(d, c), 1, << >>), mutable, 1),
                1, << >>)

\* ------------------------------------------------------------------------
\* The world: heap of GraphQL type objects, registries, mappers
\* ------------------------------------------------------------------------
\* heap ids of the GraphQLString and GraphQLInt singletons; id 0 is Python's
\* None
GraphQLString == 1

GraphQLInt == 2

EmptyFn == [x \in {} |-> 0]

Put(f, k, v) == [x \in DOMAIN f \cup {k} |-> IF x = k THEN v ELSE f[x]]

Del(f, ks) == [x \in DOMAIN f \ ks |-> f[x]]

Range(f) == { f[x] : x \in DOMAIN f }

\* a heap object.  lazy: the fields argument is a thunk; fst/ist: whether the
\* cached fields / interfaces property has been computed; by: the mapper
\* whose closures the thunks capture
NewObj(kind, name, cls, by, lazy) ==
    [ kind |-> kind, name |-> name, cls |-> cls, by |-> by, lazy |-> lazy,
      fst |-> IF lazy THEN "thunk" ELSE "done", fields |-> << >>,
      ist |-> IF kind = "object" /\ lazy THEN "thunk" ELSE "done",
      interfaces |-> << >> ]

\* a field of an object or interface: wraps lists the wrapper classes from the
\* outermost inwards around the named type `of`
NewField(key, wraps, of, mutable) ==
    [ key |-> key, wraps |-> wraps, of |-> of, mutable |-> mutable ]

\* what map_to_field returns when it returns None
NoField == NewField("", << >>, 0, FALSE)

InitHeap == << NewObj("scalar", "String", "str", 0, FALSE),
              NewObj("scalar", "Int", "int", 0, FALSE) >>

\* type descriptors handed to map(): a Python type or a GraphQL type object
Py(c) == [k |-> "py", n |-> c, id |-> 0]

Gql(w, id) == [k |-> "gql", n |-> w.heap[id].name, id |-> id]

Ok(w, v) == [w |-> w, val |-> v, exc |-> ""]

Raise(w, e) == [w |-> w, val |-> 0, exc |-> e]

Ret(w, v, how) == [w |-> w, val |-> v, exc |-> "", how |-> how]

\* `generic_key in self.registry` (and, first, a registry that never answers)
InRegistryNever(reg, key) == FALSE

InRegistry(reg, key) == key \in DOMAIN reg

\* `d or {}`: the dict d that was passed is kept when it is not empty (and,
\* first, a constructor that keeps no dict it is passed)
KeepsNever(d) == FALSE

Keeps(d) == DOMAIN d # {}

\* GraphQLTypeMapper.__init__; registry = 0 stands for a falsy registry
\* argument (None or an empty dict), for which a fresh dict is created.
\* reverse_registry names the mapper that holds the dict passed as reverse
\* registry, 0 when none is passed; `registry or {}` and `reverse_registry or
\* {}` keep a passed dict only when it is not empty.  The field rev of a
\* mapper names the mapper that holds the dict its reverse_registry
\* attribute refers to (the mapper itself when the dict is its own)
NewMapper(w, as_mutable, as_input, registry, reverse_registry, suffix) ==
    LET fresh == registry = 0 \/ ~ Keeps(w.regs[registry])
        regs  == IF fresh THEN Append(w.regs, EmptyFn) ELSE w.regs
        own   == \/ reverse_registry = 0
                 \/ ~ Keeps(w.mappers[reverse_registry].reverse_registry)
    IN  [ w EXCEPT
            !.regs = regs,
            !.mappers = Append(@,
               [ as_mutable |-> as_mutable, as_input |-> as_input,
                 registry |-> IF fresh THEN Len(regs) ELSE registry,
                 reverse_registry |-> EmptyFn,
                 rev |-> IF own THEN Len(w.mappers) + 1 ELSE reverse_registry,
                 suffix |-> suffix, meta |-> EmptyFn ]) ]

\* GraphQLTypeMapper.types
types(w, m) == Range(w.regs[w.mappers[m].registry])

\* the registry key map() computes from str(type_) and the mapper flavor
generic_key(mp, T) == << T.k, T.n, mp.as_input, mp.as_mutable, mp.suffix >>

is_input_type(w, id) == w.heap[id].kind \in {"scalar", "enum", "input"}

\* GraphQLTypeMapper.validate with evaluate=False
validate(w, m, id) ==
    /\ id # 0
    /\ ~ (w.mappers[m].as_input /\ ~ is_input_type(w, id))
    /\ ~ (w.heap[id].kind = "object" /\ ~ w.heap[id].lazy
            /\ Len(w.heap[id].fields) = 0)

\* the enum classes: E is a plain Enum, SE is declared class SE(str, Enum)
Enums == {"E", "SE"}

\* issubclass(c, str)
StrClasses == {"str", "SE"}

\* the scalar_map walk: the first scalar class c is (a subclass of) decides
map_to_scalar(c) ==
    IF c \in StrClasses THEN GraphQLString ELSE IF c = "int" THEN GraphQLInt ELSE 0

map_to_enum(w, m, c) ==
    LET w1 == [w EXCEPT !.heap = Append(@, NewObj("enum", c \o "Enum", c, m, FALSE))]
    IN  Ok(w1, Len(w1.heap))

map_to_input(w, m, c) ==
    LET name == c \o w.mappers[m].suffix \o "Input"
        w1 == [w EXCEPT !.heap = Append(@, NewObj("input", name, c, m, TRUE))]
    IN  Ok(w1, Len(w1.heap))

\* the Meta table entries map_to_object writes: only members whose metadata
\* dict is non-empty get one
RECURSIVE RecordMeta(_, _, _, _)
RecordMeta(meta, name, funcs, i) ==
    IF i > Len(funcs) THEN meta
    ELSE RecordMeta(
           IF funcs[i].tags # {}
           THEN Put(meta, << name, to_snake_case[funcs[i].key] >>,
                    [tags |-> funcs[i].tags, graphql_type |-> funcs[i].graphql_type,
                     resolve_to_mutable |-> FALSE])
           ELSE meta,
           name, funcs, i + 1)

map_to_object(w, m, c) ==
    LET mp   == w.mappers[m]
        name == c \o mp.suffix
        class_funcs == get_class_funcs(w.decl, c, mp.as_mutable)
        w1 == [w EXCEPT !.mappers[m].meta = RecordMeta(@, name, class_funcs, 1),
                        !.heap = Append(@, NewObj("object", name, c, m, TRUE))]
    IN  Ok(w1, Len(w1.heap))

\* A method call.  The operations of the mapper, the reducer and the
\* assembler call each other through Call, which looks the method up by name
\* and applies it to the argument tuple (it is defined after the last of
\* them).
RECURSIVE Call(_, _)

RECURSIVE MapSubclasses(_, _, _, _)

\* the loop of map_to_interface over class_type.__subclasses__()
MapSubclasses(w, m, subclasses, i) ==
    IF i > Len(subclasses) THEN Ok(w, 0)
    ELSE IF is_abstract(w.decl, subclasses[i])
         THEN MapSubclasses(w, m, subclasses, i + 1)
         ELSE LET r == Call("map", << w, m, Py(subclasses[i]) >>)
              IN  IF r.exc # "" THEN r
                  ELSE MapSubclasses(r.w, m, subclasses, i + 1)

map_to_interface(w, m, c) ==
    LET r == MapSubclasses(w, m, Subclasses(w.decl, c), 1)
    IN  IF r.exc # "" THEN r
        ELSE LET name == c \o w.mappers[m].suffix \o "Interface"
                 w1 == [r.w EXCEPT !.heap = Append(@, NewObj("interface", name, c, m, TRUE))]
             IN  Ok(w1, Len(w1.heap))

\* map_to_list for List[T], T not Optional: the element type is mapped and a
\* list of the non-null element type is built; None when T maps to None
map_to_list(w, m, l) ==
    LET r == Call("map", << w, m, Py(ListArg[l]) >>)
    IN  IF r.exc # "" \/ r.val = 0 THEN r
        ELSE LET name == "[" \o r.w.heap[r.val].name \o "!]"
                 w1 == [r.w EXCEPT !.heap =
                          Append(@, NewObj("list", name, ListArg[l], m, FALSE))]
             IN  Ok(w1, Len(w1.heap))

\* the loop of type_from_pydantic_model over model_fields: every field's
\* annotation is mapped while the object type is being put together
RECURSIVE PydanticFields(_, _, _, _, _)
PydanticFields(w, m, c, i, acc) ==
    IF i > Len(model_fields[c]) THEN Ok(w, acc)
    ELSE
      LET f == model_fields[c][i]
          is_outer_optional == IsOptional(f.annotation)
          effective_type_to_map ==
              IF is_outer_optional THEN OptionalArg[f.annotation] ELSE f.annotation
          r == Call("map", << w, m, Py(effective_type_to_map) >>)
      IN  IF r.exc # "" THEN r
          ELSE IF r.val = 0 THEN Raise(r.w, "TypeError")
          ELSE PydanticFields(r.w, m, c, i + 1,
                 Append(acc, NewField(to_camel_case[f.name],
                                      IF is_outer_optional THEN << >>
                                      ELSE << "NonNull" >>,
                                      r.val, FALSE)))

\* type_from_pydantic_model: the object type is constructed with the
\* finished field dict
type_from_pydantic_model(w, m, c) ==
    LET r == Call("PydanticFields", << w, m, c, 1, << >> >>)
    IN  IF r.exc # "" THEN r
        ELSE LET obj == [NewObj("object", c, c, m, FALSE) EXCEPT !.fields = r.val]
                 w1 == [r.w EXCEPT !.heap = Append(@, obj)]
             IN  Ok(w1, Len(w1.heap))

\* map_to_union for Optional[T]: the one argument beside the none-type is
\* mapped and its mapping (a type or None) is the union's mapping
map_to_union(w, m, u) ==
    LET r == Call("map", << w, m, Py(OptionalArg[u]) >>)
    IN  IF r.exc # "" THEN r ELSE Ok(r.w, r.val)

\* the dispatch of the inner function _map of GraphQLTypeMapper.map
_map(w, m, T) ==
    IF T.k = "gql" THEN Ok(w, T.id)
    ELSE IF type_is_pydantic_model(T.n) THEN type_from_pydantic_model(w, m, T.n)
    ELSE IF IsOptional(T.n) THEN map_to_union(w, m, T.n)
    ELSE IF T.n \in DOMAIN ListArg THEN map_to_list(w, m, T.n)
    ELSE IF map_to_scalar(T.n) # 0 THEN Ok(w, map_to_scalar(T.n))
    ELSE IF T.n \in Enums THEN map_to_enum(w, m, T.n)
    ELSE IF is_interface(w.decl, T.n) THEN map_to_interface(w, m, T.n)
    ELSE IF w.mappers[m].as_input THEN map_to_input(w, m, T.n)
    ELSE map_to_object(w, m, T.n)

\* GraphQLTypeMapper.map.  `how` tells which way the call took: "none" (the
\* none-type shortcut), "hit" (answered from the registry), or a build that
\* ended "null" (_map gave None, cached), "registered" or "rejected" (the
\* built value failed validate and nothing was cached)
\* A map() call nested RecursionLimit deep in other map() calls ends with
\* the interpreter's RecursionError; w.depth counts the map() calls that are
\* on the stack.
map(w, m, T) ==
    IF w.depth >= RecursionLimit
    THEN [w |-> w, val |-> 0, exc |-> "RecursionError", how |-> "raised"]
    ELSE IF T.k = "py" /\ T.n = "NoneType" THEN Ret(w, 0, "none")
    ELSE
      LET mp  == w.mappers[m]
          key == generic_key(mp, T)
      IN  IF InRegistry(w.regs[mp.registry], key)
          THEN Ret(w, w.regs[mp.registry][key], "hit")
          ELSE
            LET r0 == Call("_map", << [w EXCEPT !.depth = @ + 1], m, T >>)
                r  == [r0 EXCEPT !.w.depth = w.depth]
            IN  IF r.exc # "" THEN [w |-> r.w, val |-> 0, exc |-> r.exc, how |-> "raised"]
                ELSE IF r.val = 0
                     THEN Ret([r.w EXCEPT !.regs[mp.registry] = Put(@, key, 0)],
                              0, "null")
                ELSE IF validate(r.w, m, r.val)
                     THEN Ret([r.w EXCEPT
                                 !.regs[mp.registry] = Put(@, key, r.val),
                                 !.mappers[mp.rev].reverse_registry =
                                     Put(@, r.val, T)],
                              r.val, "registered")
                ELSE Ret(r.w, 0, "rejected")

\* GraphQLTypeMapper.rmap of the type that carries the wrappers wraps around
\* the named type `of`: the wrappers are taken off one by one and the named
\* type is looked up in the reverse registry; 0 stands for None
RECURSIVE rmap(_, _, _, _)
rmap(w, m, wraps, of) ==
    IF wraps # << >> THEN rmap(w, m, Tail(wraps), of)
    ELSE IF of \in DOMAIN w.mappers[w.mappers[m].rev].reverse_registry
         THEN w.mappers[w.mappers[m].rev].reverse_registry[of]
         ELSE 0

\* ------------------------------------------------------------------------
\* Field builder and the lazily computed fields / interfaces of a type
\* ------------------------------------------------------------------------
\* an exception whose message reads "Field '{name}.{key}' ..."
RaiseField(w, e, name, key) ==
    [w |-> w, val |-> 0, exc |-> e, msg |-> [name |-> name, key |-> key]]

\* typing.get_type_hints of a member without its return hint: greet is
\* declared greet(self, who: str, to_item: B); the other members take no
\* argument
ArgHints ==
    [ greet |-> << [key |-> "who", hint |-> "str"],
                   [key |-> "to_item", hint |-> "B"] >> ]

type_hints(func) ==
    IF func.key \in DOMAIN ArgHints THEN ArgHints[func.key] ELSE << >>

\* the argument loop of map_to_field: every hint is mapped by the input
\* mapper im; no argument has a default, so each mapped type is wrapped in
\* NonNull
RECURSIVE MapArguments(_, _, _, _, _, _, _)
MapArguments(w, im, hints, i, arguments, name, key) ==
    IF i > Len(hints) THEN Ok(w, arguments)
    ELSE LET r == Call("map", << w, im, Py(hints[i].hint) >>)
         IN  IF r.exc # "" THEN r
             ELSE IF r.val = 0
                  THEN RaiseField(r.w, "GraphQLTypeMapError", name, key)
             ELSE IF ~ is_input_type(r.w, r.val)
                  THEN RaiseField(r.w, "GraphQLTypeMapError", name, key)
             ELSE MapArguments(r.w, im, hints, i + 1,
                               Append(arguments,
                                      [ key |-> to_camel_case[hints[i].key],
                                        wraps |-> << "NonNull" >>, of |-> r.val ]),
                               name, key)

\* GraphQLTypeMapper.map_to_field; the value is the built field, or NoField
\* when the method returns None.  The input mapper is constructed with the
\* mapper's registry and reverse registry; the one of a member without
\* arguments maps nothing and is not kept in the world.  A field with
\* arguments carries them as args
map_to_field(w, m, func, name, key) ==
    IF func.ret = "" THEN RaiseField(w, "GraphQLTypeMapInvalid", name, key)
    ELSE
      LET r == Call("map", << w, m, Py(func.ret) >>)
          nullable == IsOptional(func.ret)
          field == NewField(to_camel_case[func.key],
                            IF nullable THEN << >> ELSE << "NonNull" >>,
                            r.val, func.graphql_type = "mutable_field")
          mp == r.w.mappers[m]
          input_type_mapper ==
              NewMapper(r.w, mp.as_mutable, TRUE, mp.registry, mp.rev, mp.suffix)
      IN  IF r.exc # "" THEN r
          ELSE IF r.val = 0 /\ ~ nullable
               THEN RaiseField(r.w, "GraphQLTypeMapError", name, key)
          ELSE IF r.val # 0 /\ ~ validate(r.w, m, r.val)
               THEN RaiseField(r.w, "GraphQLTypeMapError", name, key)
          ELSE IF r.val = 0 THEN Ok(r.w, NoField)
          ELSE IF type_hints(func) = << >> THEN Ok(r.w, field)
          ELSE LET a == Call("MapArguments",
                             << input_type_mapper,
                                Len(input_type_mapper.mappers),
                                type_hints(func), 1, << >>, name, key >>)
               IN  IF a.exc # "" THEN a
                   ELSE Ok(a.w, field @@ [args |-> a.val])

\* the fields() closure of map_to_object / map_to_interface: one map_to_field
\* per enumerated member; an object drops members whose field is None
RECURSIVE FieldsThunk(_, _, _, _, _)
FieldsThunk(w, o, funcs, i, acc) ==
    IF i > Len(funcs) THEN Ok(w, acc)
    ELSE LET r == Call("map_to_field", << w, w.heap[o].by, funcs[i],
                                          w.heap[o].name, funcs[i].key >>)
         IN  IF r.exc # "" THEN r
             ELSE FieldsThunk(r.w, o, funcs, i + 1,
                              IF r.val = NoField THEN acc ELSE Append(acc, r.val))

\* reading type.fields: the thunk runs on first access and its result is
\* cached; when it raises nothing is cached and the exception propagates
fields(w, o) ==
    IF w.heap[o].fst = "done" THEN Ok(w, w.heap[o].fields)
    ELSE LET obj == w.heap[o]
             r == Call("FieldsThunk",
                       << w, o, get_class_funcs(w.decl, obj.cls,
                                                w.mappers[obj.by].as_mutable),
                          1, << >> >>)
         IN  IF r.exc # "" THEN r
             ELSE Ok([r.w EXCEPT !.heap[o].fst = "done", !.heap[o].fields = r.val],
                     r.val)

\* the interfaces() closure of map_to_object: the mapped interface of every
\* superclass that is an interface
RECURSIVE InterfacesThunk(_, _, _, _, _)
InterfacesThunk(w, o, mro, i, acc) ==
    IF i > Len(mro) THEN Ok(w, acc)
    ELSE IF ~ is_interface(w.decl, mro[i])
         THEN InterfacesThunk(w, o, mro, i + 1, acc)
         ELSE LET r == Call("map", << w, w.heap[o].by, Py(mro[i]) >>)
              IN  IF r.exc # "" THEN r
                  ELSE InterfacesThunk(r.w, o, mro, i + 1,
                         IF r.val # 0 /\ r.w.heap[r.val].kind = "interface"
                         THEN Append(acc, r.val) ELSE acc)

\* reading type.interfaces
interfaces(w, o) ==
    IF w.heap[o].ist = "done" THEN Ok(w, w.heap[o].interfaces)
    ELSE LET r == Call("InterfacesThunk",
                       << w, o, Mro(w.decl, w.heap[o].cls), 2, << >> >>)
         IN  IF r.exc # "" THEN r
             ELSE Ok([r.w EXCEPT !.heap[o].ist = "done",
                                 !.heap[o].interfaces = r.val], r.val)

\* del type_.fields[key]
DelField(w, o, key) ==
    [w EXCEPT !.heap[o].fields = SelectSeq(@, LAMBDA f : f.key # key)]

FieldKeys(fs) == { fs[i].key : i \in 1..Len(fs) }

\* ------------------------------------------------------------------------
\* Schema reducer: query reduction
\* ------------------------------------------------------------------------
\* TagFilter.filter_field: the field carries one of the filter's tags
filter_field(tags, meta) == meta.tags \cap tags # {}

NoMeta == [tags |-> {}, graphql_type |-> "field", resolve_to_mutable |-> FALSE]

\* meta.get((type name, field name), {})
MetaGet(meta, name, field_name) ==
    IF << name, field_name >> \in DOMAIN meta THEN meta[<< name, field_name >>]
    ELSE NoMeta

\* the filter loop of invalid: the filters are OR-ed, any veto counts
Vetoes(filters, field_name, field_meta) ==
    \E j \in 1..Len(filters) : filter_field(filters[j], field_meta)

\* (first, a walk that also takes an invalid declaration for an invalid type)
CaughtInvalidToo(exc) ==
    exc \in {"AssertionError", "GraphQLTypeMapError", "GraphQLTypeMapInvalid"}

\* except (AssertionError, GraphQLTypeMapError): the two errors the walk turns
\* into "this type is invalid"; AssertionError stands for `assert type_.fields`
\* failing on an empty field map
Caught(exc) == exc \in {"AssertionError", "GraphQLTypeMapError"}

\* the walk state of GraphQLSchemaReducer.invalid
Walk(w, checked, invalid_types, invalid_fields, exc) ==
    [ w |-> w, checked_types |-> checked, invalid_types |-> invalid_types,
      invalid_fields |-> invalid_fields, exc |-> exc ]

\* the interface_fields loop of invalid: an interface whose fields raise is
\* recorded invalid.  The value is the set of keys the interfaces declare.
RECURSIVE InterfaceFields(_, _, _, _, _)
InterfaceFields(w, ifaces, i, keys, bad) ==
    IF i > Len(ifaces) THEN [w |-> w, keys |-> keys, bad |-> bad, exc |-> ""]
    ELSE LET r == Call("fields", << w, ifaces[i] >>)
         IN  IF r.exc # "" /\ Caught(r.exc)
             THEN InterfaceFields(r.w, ifaces, i + 1, keys, bad \cup {ifaces[i]})
             ELSE IF r.exc # "" THEN [w |-> r.w, keys |-> keys, bad |-> bad, exc |-> r.exc]
             ELSE InterfaceFields(r.w, ifaces, i + 1, keys \cup FieldKeys(r.val), bad)

RECURSIVE InvalidLoop(_, _, _, _, _, _, _)

\* the loop of invalid over fields.items(); fs is the field list read at the
\* start, st the walk state so far
InvalidLoop(st, root_type, fs, i, interface_fields, filters, meta) ==
    IF i > Len(fs) \/ st.exc # "" THEN st
    ELSE IF fs[i].key \in interface_fields
         THEN InvalidLoop(st, root_type, fs, i + 1, interface_fields, filters, meta)
    ELSE
      LET key == fs[i].key
          type_ == fs[i].of
          field_meta == MetaGet(st.w.mappers[meta].meta, st.w.heap[root_type].name,
                                to_snake_case[key])
          vetoed == Vetoes(filters, to_snake_case[key], field_meta)
          st1 == IF vetoed
                 THEN [st EXCEPT !.invalid_fields = @ \cup {<< root_type, key >>}]
                 ELSE st
          st2 ==
            IF st1.w.heap[type_].kind \notin {"interface", "object"} THEN st1
            ELSE
              LET r == Call("fields", << st1.w, type_ >>)
                  \* assert type_.fields
                  exc == IF r.exc = "" /\ Len(r.val) = 0 THEN "AssertionError"
                         ELSE r.exc
              IN  IF exc = ""
                  THEN Call("invalid", << [st1 EXCEPT !.w = r.w], type_, filters, meta >>)
                  ELSE IF Caught(exc)
                  THEN [st1 EXCEPT !.w = r.w,
                                   !.invalid_types = @ \cup {type_},
                                   !.invalid_fields = @ \cup {<< root_type, key >>}]
                  ELSE [st1 EXCEPT !.w = r.w, !.exc = exc]
      IN  InvalidLoop(st2, root_type, fs, i + 1, interface_fields, filters, meta)

\* GraphQLSchemaReducer.invalid.  The three sets of the walk are threaded in
\* st (a recursive call that creates fresh sets returns them and the caller
\* merges them, which comes to the same).  meta is a reference to a mapper's
\* Meta dict, given as the id of that mapper: entries written while the walk
\* forces thunks are seen by the walk.
invalid(st, root_type, filters, meta) ==
    IF root_type \in st.checked_types THEN st
    ELSE
      LET st0 == [st EXCEPT !.checked_types = @ \cup {root_type}]
          r == Call("fields", << st0.w, root_type >>)
      IN  IF r.exc # "" /\ Caught(r.exc)
          THEN [st0 EXCEPT !.w = r.w, !.invalid_types = @ \cup {root_type}]
          ELSE IF r.exc # "" THEN [st0 EXCEPT !.w = r.w, !.exc = r.exc]
          ELSE
            LET ri == Call("interfaces", << r.w, root_type >>)
                rf == InterfaceFields(ri.w, ri.val, 1, {}, {})
                st1 == [st0 EXCEPT !.w = rf.w,
                                   !.invalid_types = @ \cup rf.bad,
                                   !.exc = rf.exc]
            IN  IF ri.exc # "" THEN [st0 EXCEPT !.w = ri.w, !.exc = ri.exc]
                ELSE InvalidLoop(st1, root_type, r.val, 1, rf.keys, filters, meta)

\* the deletion loop of reduce_query over invalid_fields
RECURSIVE DelFields(_, _)
DelFields(w, pairs) ==
    IF pairs = {} THEN w
    ELSE LET p == CHOOSE x \in pairs : TRUE
         IN  DelFields(DelField(w, p[1], p[2]), pairs \ {p})

\* GraphQLSchemaReducer.reduce_query; root is a type descriptor.  The value
\* is the mapped root; `walk` keeps the sets the walk computed.
reduce_query(w, m, root, filters) ==
    LET rq == Call("map", << w, m, root >>)
        st == Call("invalid", << Walk(rq.w, {}, {}, {}, ""), rq.val, filters, m >>)
        w1 == DelFields(st.w, st.invalid_fields)
        reg == w1.regs[w1.mappers[m].registry]
        w2 == [w1 EXCEPT !.regs[w1.mappers[m].registry] =
                 Del(reg, { k \in DOMAIN reg : reg[k] \in st.invalid_types })]
    IN  IF rq.exc # "" THEN [w |-> rq.w, val |-> 0, exc |-> rq.exc, walk |-> st]
        ELSE IF st.exc # "" THEN [w |-> st.w, val |-> 0, exc |-> st.exc, walk |-> st]
        ELSE [w |-> w2, val |-> rq.val, exc |-> "", walk |-> st]

\* ------------------------------------------------------------------------
\* Schema reducer: mutation reduction
\* ------------------------------------------------------------------------
\* utils.has_mutable: the type has at least one field that is a
\* GraphQLMutableField; an interface counts as mutable-bearing by default
has_mutable(w, id, interfaces_default_mutable) ==
    IF w.heap[id].kind = "interface" /\ interfaces_default_mutable THEN TRUE
    ELSE /\ w.heap[id].kind \in {"object", "interface"}
         /\ \E i \in 1..Len(w.heap[id].fields) : w.heap[id].fields[i].mutable

\* utils.iterate_fields: every (type, key) of the object / interface graph
\* under the types in todo; reading the fields runs their thunks
RECURSIVE IterateFrom(_, _, _, _)
IterateFrom(w, todo, seen, acc) ==
    IF todo = {} THEN [w |-> w, val |-> acc, exc |-> ""]
    ELSE LET o == CHOOSE x \in todo : TRUE
             r == Call("fields", << w, o >>)
             next == { r.val[i].of : i \in 1..Len(r.val) }
             more == { x \in next : r.w.heap[x].kind \in {"object", "interface"} }
         IN  IF r.exc # "" THEN [w |-> r.w, val |-> acc, exc |-> r.exc]
             ELSE IterateFrom(r.w, (todo \ {o}) \cup (more \ (seen \cup {o})),
                              seen \cup {o},
                              acc \cup { << o, r.val[i].key >> : i \in 1..Len(r.val) })

iterate_fields(w, root) == IterateFrom(w, {root}, {}, {})

\* `mapper.suffix in str(field_type)`
SuffixIn(suffix, obj) ==
    \/ suffix = ""
    \/ obj.name \in { obj.cls \o suffix, obj.cls \o suffix \o "Interface",
                      obj.cls \o suffix \o "Input" }

\* str(field_type).replace(mapper.suffix, "", 1)
StripSuffix(suffix, obj) ==
    IF obj.name = obj.cls \o suffix THEN obj.cls
    ELSE IF obj.name = obj.cls \o suffix \o "Interface" THEN obj.cls \o "Interface"
    ELSE IF obj.name = obj.cls \o suffix \o "Input" THEN obj.cls \o "Input"
    ELSE obj.name

\* mapper.registry.get(key): the registry is keyed by generic keys
RegistryGet(reg, key) == IF key \in DOMAIN reg THEN reg[key] ELSE 0

\* for wrap in wraps: query_type = wrap(query_type).  wraps lists the wrapper
\* classes from the outermost inwards, acc the wrappers already put around
\* the query type; every class is put around what the ones before it built
RECURSIVE Rewrap(_, _)
Rewrap(wraps, acc) ==
    IF wraps = << >> THEN acc
    ELSE Rewrap(Tail(wraps), << Head(wraps) >> \o acc)

\* field.type = query_type, with the wrappers put around it
SetFieldType(w, o, key, of) ==
    [w EXCEPT !.heap[o].fields =
       [i \in 1..Len(@) |->
          IF @[i].key = key
          THEN [@[i] EXCEPT !.of = of, !.wraps = Rewrap(@, << >>)]
          ELSE @[i]]]

\* the loop of reduce_mutation that turns plain fields without mutable
\* subtypes back to their query-flavor type
RECURSIVE RewriteFields(_, _, _, _)
RewriteFields(w, m, pairs, filtered_mutation_types) ==
    IF pairs = {} THEN w
    ELSE
      LET p == CHOOSE x \in pairs : TRUE
          type_ == p[1]
          key == p[2]
          field == CHOOSE f \in Range(w.heap[type_].fields) : f.key = key
          meta == MetaGet(w.mappers[m].meta, w.heap[type_].name, to_snake_case[key])
          suffix == w.mappers[m].suffix
          keep == \/ meta.resolve_to_mutable
                  \/ /\ meta.graphql_type = "field"
                     /\ \/ SuffixIn(suffix, w.heap[field.of])
                        \/ field.of \in filtered_mutation_types
          query_type == RegistryGet(w.regs[w.mappers[m].registry],
                                    << StripSuffix(suffix, w.heap[field.of]) >>)
          w1 == IF ~ keep /\ query_type # 0
                THEN SetFieldType(w, type_, key, query_type) ELSE w
      IN  RewriteFields(w1, m, pairs \ {p}, filtered_mutation_types)

\* the types whose fields the removal loop of reduce_mutation looks at: the
\* root mutation type only (and, first, every mutable type, the root included)
RemovalScopeAllMutable(mutation, filtered_mutation_types) ==
    filtered_mutation_types

RemovalScope(mutation, filtered_mutation_types) == {mutation}

\* GraphQLSchemaReducer.reduce_mutation; root is a type descriptor
reduce_mutation(w, m, root) ==
    LET rq == Call("map", << w, m, root >>)
        mutation == rq.val
        it == Call("iterate_fields", << rq.w, mutation >>)
        filtered_mutation_types ==
            {mutation} \cup { t \in types(it.w, m) \ {0} : has_mutable(it.w, t, FALSE) }
        w1 == RewriteFields(it.w, m, it.val, filtered_mutation_types)
        ri == Call("interfaces", << w1, mutation >>)
        interface_fields ==
            UNION { FieldKeys(ri.w.heap[ri.val[i]].fields) : i \in 1..Len(ri.val) }
        fields_to_remove ==
            UNION { { << t, f.key >> :
                        f \in { g \in Range(ri.w.heap[t].fields) :
                                  /\ g.key \notin interface_fields
                                  /\ ~ g.mutable
                                  /\ ~ has_mutable(ri.w, g.of, TRUE) } } :
                    t \in RemovalScope(mutation, filtered_mutation_types) }
    IN  IF rq.exc # "" THEN Raise(rq.w, rq.exc)
        ELSE IF it.exc # "" THEN Raise(it.w, it.exc)
        ELSE IF ri.exc # "" THEN Raise(ri.w, ri.exc)
        ELSE Ok(DelFields(ri.w, fields_to_remove), mutation)

\* the types a root refers to, through fields and interfaces
RECURSIVE ReferencedFrom(_, _, _)
ReferencedFrom(w, seen, frontier) ==
    LET next == UNION { { f.of : f \in Range(w.heap[o].fields) }
                          \cup Range(w.heap[o].interfaces) : o \in frontier } \ seen
    IN  IF next = {} THEN seen ELSE ReferencedFrom(w, seen \cup next, next)

\* GraphQLSchemaReducer._remove_unreferenced_types: the registry keeps only
\* the types the root refers to
_remove_unreferenced_types(w, m, root) ==
    LET reg == w.regs[w.mappers[m].registry]
        keep == ReferencedFrom(w, {root}, {root})
    IN  [w EXCEPT !.regs[w.mappers[m].registry] =
           Del(reg, { k \in DOMAIN reg : reg[k] \notin keep })]

\* ------------------------------------------------------------------------
\* Schema assembler: GraphQLAPI.build_schema, single root type
\* ------------------------------------------------------------------------
\* GraphQLTypeMapper.validate with evaluate=True (the fields are read)
validate_evaluate(w, m, id) ==
    LET r == IF id # 0 /\ w.heap[id].kind = "object" THEN Call("fields", << w, id >>)
             ELSE Ok(w, << >>)
        exc == IF r.exc = "AssertionError" THEN "" ELSE r.exc
    IN  [ w |-> r.w, exc |-> exc,
          val |-> /\ r.exc = ""
                  /\ validate(r.w, m, id)
                  /\ ~ (r.w.heap[id].kind = "object" /\ Len(r.val) = 0) ]

\* registry.copy(): a new dict with the same entries (and, first, the same
\* dict handed on)
ShareRegistry(w, registry) == [w |-> w, id |-> registry]

CopyRegistry(w, registry) ==
    [w |-> [w EXCEPT !.regs = Append(@, w.regs[registry])], id |-> Len(w.regs) + 1]

\* `registry.copy() if registry else {}`; 0 stands for a falsy registry
CopyOrEmpty(w, registry) ==
    IF registry = 0 \/ DOMAIN w.regs[registry] = {} THEN [w |-> w, id |-> 0]
    ELSE CopyRegistry(w, registry)

\* `self.filters and not query_has_fields` (and, first, a test that never
\* asks for the placeholder)
NeverFilteredPlaceholder(filters, query_has_fields) == FALSE

NeedsFilteredPlaceholder(filters, query_has_fields) ==
    Len(filters) > 0 /\ ~ query_has_fields

\* a GraphQLObjectType built from a plain field dict
PlainObject(name, field_keys) ==
    [ NewObj("object", name, "", 0, FALSE) EXCEPT
        !.fields = [i \in 1..Len(field_keys) |->
                      NewField(field_keys[i], << >>, GraphQLString, FALSE)] ]

\* the query type that stands for a root whose fields were all filtered out
FilteredPlaceholder(name) == PlainObject(name, << "_schema" >>)

\* the query type of a schema without a valid query (and, first, one
\* without its field)
EmptyPlaceholderQuery == PlainObject("PlaceholderQuery", << >>)

PlaceholderQuery == PlainObject("PlaceholderQuery", << "placeholder" >>)

\* is_named_type(t) for a registry value (None is not)
is_named_type(w, id) == id # 0

\* the second half of the query part of build_schema: r2 is what reduce_query
\* returned and rf what reading the fields of the reduced root gave.  A root
\* the filters emptied is replaced by the filtered placeholder; otherwise the
\* reduced root is the query type if it validates.
SettleQuery(filters, qm, r2, rf) ==
    IF r2.exc # ""
    THEN [ w |-> r2.w, exc |-> r2.exc, query_mapper |-> qm, filtered_query |-> 0,
           query |-> 0, query_types |-> {}, registry |-> 0 ]
    ELSE
    LET filtered_query == r2.val
        query_has_fields == rf.exc = "" /\ Len(rf.val) > 0
        escapes == IF r2.exc # "" THEN r2.exc
                   ELSE IF rf.exc \notin {"", "AssertionError", "AttributeError"}
                   THEN rf.exc ELSE ""
        placeholder == NeedsFilteredPlaceholder(filters, query_has_fields)
        w2 == IF placeholder
              THEN [rf.w EXCEPT !.heap = Append(@,
                       FilteredPlaceholder(rf.w.heap[filtered_query].name))]
              ELSE rf.w
        rv == IF placeholder THEN [w |-> w2, val |-> TRUE, exc |-> ""]
              ELSE Call("validate_evaluate", << w2, qm, filtered_query >>)
        query == IF placeholder THEN Len(w2.heap)
                 ELSE IF rv.val THEN filtered_query ELSE 0
    IN  [ w |-> rv.w,
          exc |-> IF escapes # "" THEN escapes ELSE rv.exc,
          query_mapper |-> qm,
          filtered_query |-> filtered_query,
          query |-> query,
          query_types |-> IF query # 0 THEN types(rv.w, qm) ELSE {},
          registry |-> IF query # 0 THEN rv.w.mappers[qm].registry ELSE 0 ]

\* the query part of build_schema: map the root, reduce it and settle the
\* query type, the query types and the registry handed on
BuildQuery(w, filters) ==
    LET w1 == NewMapper(w, FALSE, FALSE, 0, 0, "")
        qm == Len(w1.mappers)
        r1 == Call("map", << w1, qm, Py("Root") >>)
        r2 == Call("reduce_query", << r1.w, qm, Gql(r1.w, r1.val), filters >>)
    IN  SettleQuery(filters, qm, r2,
                    IF r2.exc # "" THEN r2 ELSE Call("fields", << r2.w, r2.val >>))

\* the second half of the mutation part of build_schema: r2 is what
\* reduce_mutation returned; the reduced root is the mutation type if it
\* validates
SettleMutation(mm, r2) ==
    LET rv == IF r2.exc # "" THEN [w |-> r2.w, val |-> FALSE, exc |-> r2.exc]
              ELSE Call("validate_evaluate", << r2.w, mm, r2.val >>)
    IN  [ w |-> rv.w, exc |-> rv.exc, mutation_mapper |-> mm,
          mutation |-> IF rv.val THEN r2.val ELSE 0,
          mutation_types |-> IF rv.val THEN types(rv.w, mm) ELSE {} ]

\* the mutation part of build_schema
BuildMutation(w, registry) ==
    LET cp == CopyOrEmpty(w, registry)
        w1 == NewMapper(cp.w, TRUE, FALSE, cp.id, 0, "Mutable")
        mm == Len(w1.mappers)
        r1 == Call("map", << w1, mm, Py("Root") >>)
    IN  SettleMutation(mm, Call("reduce_mutation", << r1.w, mm, Gql(r1.w, r1.val) >>))

\* the cleanup of build_schema after filtering: both registries drop what
\* their root no longer refers to and the type sets are taken again
Cleanup(w, filters, q, mu) ==
    IF Len(filters) = 0
    THEN [w |-> w, query_types |-> q.query_types, mutation_types |-> mu.mutation_types]
    ELSE
      LET w1 == IF q.query # 0
                THEN _remove_unreferenced_types(w, q.query_mapper, q.query) ELSE w
          w2 == IF mu.mutation # 0
                THEN _remove_unreferenced_types(w1, mu.mutation_mapper, mu.mutation)
                ELSE w1
      IN  [ w |-> w2, query_types |-> types(w2, q.query_mapper),
            mutation_types |-> types(w2, mu.mutation_mapper) ]

\* the mapper build_schema makes to look for subscription fields of the root
SubscriptionFromRoot(w, registry) ==
    LET cp == CopyOrEmpty(w, registry)
        w1 == NewMapper(cp.w, FALSE, FALSE, cp.id, 0, "")
    IN  Call("map", << w1, Len(w1.mappers), Py("Root") >>).w

\* GraphQLAPI.build_schema past the cache test.  The value holds the
\* arguments handed to the GraphQLSchema constructor.
build_schema(w, filters, self_types) ==
    LET q  == Call("BuildQuery", << w, filters >>)
        mu == Call("BuildMutation", << q.w, q.registry >>)
        cl == Call("Cleanup", << mu.w, filters, q, mu >>)
        w3 == Call("SubscriptionFromRoot", << cl.w, q.registry >>)
        all_types == cl.query_types \cup self_types
                       \cup (IF mu.mutation # 0 THEN cl.mutation_types ELSE {})
        collected_types == { t \in all_types : is_named_type(w3, t) }
        w4 == IF q.query = 0
              THEN [w3 EXCEPT !.heap = Append(@, PlaceholderQuery)] ELSE w3
        query == IF q.query = 0 THEN Len(w4.heap) ELSE q.query
    IN  [ w |-> IF q.exc # "" THEN q.w ELSE IF mu.exc # "" THEN mu.w ELSE w4,
          exc |-> IF q.exc # "" THEN q.exc ELSE mu.exc,
          query_mapper |-> q.query_mapper,
          mutation_mapper |-> mu.mutation_mapper,
          filtered_query |-> q.filtered_query,
          schema |-> [ query |-> query, mutation |-> mu.mutation,
                       types |-> collected_types ] ]

Call(method, args) ==
    CASE method = "_map" -> _map(args[1], args[2], args[3])
      [] method = "map" -> map(args[1], args[2], args[3])
      [] method = "map_to_field" ->
           map_to_field(args[1], args[2], args[3], args[4], args[5])
      [] method = "MapArguments" ->
           MapArguments(args[1], args[2], args[3], args[4], args[5], args[6],
                        args[7])
      [] method = "FieldsThunk" ->
           FieldsThunk(args[1], args[2], args[3], args[4], args[5])
      [] method = "fields" -> fields(args[1], args[2])
      [] method = "PydanticFields" ->
           PydanticFields(args[1], args[2], args[3], args[4], args[5])
      [] method = "InterfacesThunk" ->
           InterfacesThunk(args[1], args[2], args[3], args[4], args[5])
      [] method = "interfaces" -> interfaces(args[1], args[2])
      [] method = "invalid" -> invalid(args[1], args[2], args[3], args[4])
      [] method = "reduce_query" -> reduce_query(args[1], args[2], args[3], args[4])
      [] method = "iterate_fields" -> iterate_fields(args[1], args[2])
      [] method = "reduce_mutation" -> reduce_mutation(args[1], args[2], args[3])
      [] method = "validate_evaluate" -> validate_evaluate(args[1], args[2], args[3])
      [] method = "BuildQuery" -> BuildQuery(args[1], args[2])
      [] method = "BuildMutation" -> BuildMutation(args[1], args[2])
      [] method = "Cleanup" -> Cleanup(args[1], args[2], args[3], args[4])
      [] method = "SubscriptionFromRoot" -> SubscriptionFromRoot(args[1], args[2])
      [] method = "build_schema" -> build_schema(args[1], args[2], args[3])

\* `not ignore_cache and self._cached_schema` (and, first, a cache that is
\* never used); cached is the cached pair, NoPair before the first build
NoPair == [schema |-> 0, meta |-> 0]

CacheNeverHit(ignore_cache, cached) == FALSE

CacheHit(ignore_cache, cached) == ~ ignore_cache /\ cached # NoPair

\* ------------------------------------------------------------------------
\* State
\* ------------------------------------------------------------------------
VARIABLES
    decl,       \* the declared classes (fixed after Init)
    filters,    \* the filter list the API / the reducer is configured with
    heap,       \* GraphQL type objects, by id
    regs,       \* registry dicts, by id
    mappers,    \* GraphQLTypeMapper instances, by id
    lastReduce, \* what the last reduce_query call did and returned
    calls,      \* number of direct calls made on the stand-alone mappers
    firstMap,   \* per (mapper, type): what the first map() call returned
    lastMap,    \* what the last map() call did and returned
    api,        \* the GraphQLAPI object: cached pair, mappers, number of builds
    schemas,    \* the GraphQLSchema objects built so far with their meta dicts
    lastBuild,  \* what the last build_schema call did and returned
    instances,  \* the root objects made so far: the _value each one holds
    executors,  \* the GraphQLExecutor objects made so far
    results,    \* what the executions made so far returned, in order
    lastCall,   \* the last call of a function of the mapper and what it returned
    tagged,     \* a decorated member: its _graphql and _schemas attributes
    context,    \* the context object of the execution under way
    frames      \* the field resolutions under way, the outermost first

vars == << decl, filters, heap, regs, mappers, lastReduce, calls, firstMap,
           lastMap, api, schemas, lastBuild, instances, executors, results,
           lastCall, tagged, context, frames >>

execVars == << instances, executors, results, context, frames >>

\* None in the request slot and in the field slot of a context
NoRequest == [args |-> "", by |-> 0]

NoFieldContext == [meta |-> {}, query |-> FALSE, by |-> 0]

\* the context object as execute() constructs it
NoContext == [request |-> NoRequest, field |-> NoFieldContext]

World == [decl |-> decl, heap |-> heap, regs |-> regs, mappers |-> mappers,
          depth |-> 0]

SetWorld(w) == /\ heap' = w.heap
               /\ regs' = w.regs
               /\ mappers' = w.mappers

EmptyWorld(d) ==
    [decl |-> d, heap |-> InitHeap, regs |-> << >>, mappers |-> << >>, depth |-> 0]

NoReduce == [done |-> FALSE, m |-> 0, ret |-> 0, exc |-> "",
             checked_types |-> {}, invalid_types |-> {}, invalid_fields |-> {}]

NoMap == [done |-> FALSE, m |-> 0, T |-> "", ret |-> 0, how |-> "", exc |-> "",
          built |-> FALSE, again |-> FALSE, prev |-> 0, prevHow |-> "",
          between |-> 0]

\* the API object after construction without directives, types or
\* federation; directives lists what follows the specified directives
NoApi == [cached |-> NoPair, builds |-> 0, query_mapper |-> 0, mutation_mapper |-> 0,
          federation |-> FALSE, directives |-> << >>, types |-> {}]

NoBuild == [done |-> FALSE, ignore_cache |-> FALSE, built |-> FALSE, exc |-> "",
            ret |-> NoPair, prev |-> NoPair]

NoBuilds == /\ api = NoApi
            /\ schemas = << >>
            /\ lastBuild = NoBuild

NoMapCalls == /\ calls = 0
              /\ firstMap = EmptyFn
              /\ lastMap = NoMap

NoExecutors == /\ instances = << >>
               /\ executors = << >>
               /\ results = << >>
               /\ context = NoContext
               /\ frames = << >>

NoCall == [op |-> "", args |-> << >>, ret |-> << >>]

\* an object no decorator has touched: no _graphql, no _schemas attribute
Untagged == [ _graphql |-> FALSE, _schemas |-> << >> ]

\* ------------------------------------------------------------------------
\* Specification SpecReduce: one query-flavor mapper, reduce_query applied
\* to the declared root class
\* ------------------------------------------------------------------------
InitReduce ==
    /\ decl \in Decls
    /\ filters \in FilterConfigs
    /\ LET w == NewMapper(EmptyWorld(decl), FALSE, FALSE, 0, 0, "")
       IN  heap = w.heap /\ regs = w.regs /\ mappers = w.mappers
    /\ lastReduce = NoReduce
    /\ NoMapCalls
    /\ NoBuilds
    /\ NoExecutors
    /\ lastCall = NoCall
    /\ tagged = Untagged

\* GraphQLSchemaReducer.reduce_query(mapper, Root, filters)
ReduceQueryCall ==
    /\ ~ lastReduce.done
    /\ \E r \in { Call("reduce_query", << World, 1, Py("Root"), filters >>) } :
           /\ SetWorld(r.w)
           /\ lastReduce' = [done |-> TRUE, m |-> 1, ret |-> r.val, exc |-> r.exc,
                             checked_types |-> r.walk.checked_types,
                             invalid_types |-> r.walk.invalid_types,
                             invalid_fields |-> r.walk.invalid_fields]
    /\ UNCHANGED << decl, filters, calls, firstMap, lastMap, api, schemas, lastBuild >>
    /\ UNCHANGED << execVars, lastCall, tagged >>

NextReduce == ReduceQueryCall

SpecReduce == InitReduce /\ [][NextReduce]_vars

\* ------------------------------------------------------------------------
\* Specification SpecMap: an output mapper (1) and an input mapper (2), each
\* with a registry of its own, driven by direct map() calls and by reads of
\* the lazy fields of the types they registered
\* ------------------------------------------------------------------------
MapDecls ==
    { d \in Decls : /\ d.Ra = "F" /\ d.Rs = "F" /\ d.Ab = "F" /\ d.As = "F"
                    /\ d.Bs \in {"F", "M", "X"} }

\* the type descriptors handed to map()
MapTypes == {"Root", "A", "B", "I", "E", "SE", "NoneType"}

InitMap ==
    /\ decl \in MapDecls
    /\ filters = << >>
    /\ LET w == NewMapper(NewMapper(EmptyWorld(decl), FALSE, FALSE, 0, 0, ""),
                          FALSE, TRUE, 0, 0, "")
       IN  heap = w.heap /\ regs = w.regs /\ mappers = w.mappers
    /\ lastReduce = NoReduce
    /\ NoMapCalls
    /\ NoBuilds
    /\ NoExecutors
    /\ lastCall = NoCall
    /\ tagged = Untagged

\* mapper.map(T)
MapCall(m, T) ==
    /\ calls < MaxMapCalls
    /\ \E r \in { Call("map", << World, m, Py(T) >>) } :
         LET again == << m, T >> \in DOMAIN firstMap
         IN
           /\ SetWorld(r.w)
           /\ lastMap' = [ done |-> TRUE, m |-> m, T |-> T, ret |-> r.val,
                           how |-> r.how, exc |-> r.exc,
                           built |-> Len(r.w.heap) > Len(heap),
                           again |-> again,
                           prev |-> IF again THEN firstMap[<< m, T >>].ret ELSE 0,
                           prevHow |-> IF again THEN firstMap[<< m, T >>].how ELSE "",
                           between |-> IF again
                                       THEN calls - firstMap[<< m, T >>].at ELSE 0 ]
           /\ firstMap' = IF again THEN firstMap
                          ELSE Put(firstMap, << m, T >>,
                                   [ret |-> r.val, how |-> r.how, at |-> calls + 1])
    /\ calls' = calls + 1
    /\ UNCHANGED << decl, filters, lastReduce, api, schemas, lastBuild >>
    /\ UNCHANGED << execVars, lastCall, tagged >>

\* a read of type.fields on a registered object or interface type whose
\* thunk has not run yet; an exception of the thunk reaches the reader and
\* leaves the thunk in place
FieldsCall(o) ==
    /\ calls < MaxMapCalls
    /\ o \in 1..Len(heap)
    /\ \E m \in 1..Len(mappers) : o \in types(World, m)
    /\ heap[o].kind \in {"object", "interface"}
    /\ heap[o].fst = "thunk"
    /\ SetWorld(Call("fields", << World, o >>).w)
    /\ calls' = calls + 1
    /\ UNCHANGED << decl, filters, lastReduce, firstMap, lastMap, api, schemas,
                    lastBuild >>
    /\ UNCHANGED << execVars, lastCall, tagged >>

NextMap ==
    \/ \E m \in 1..2 : \E T \in MapTypes : MapCall(m, T)
    \/ \E o \in 1..Len(heap) : FieldsCall(o)

SpecMap == InitMap /\ [][NextMap]_vars

\* ------------------------------------------------------------------------
\* Specification Spec: one GraphQLAPI object with the root type Root and a
\* filter list; build_schema is called again and again
\* ------------------------------------------------------------------------
\* declarations without deferred mapping errors; tags on the root members
\* and on B.s only
ApiDecls == { d \in Decls : d.Bs # "X" /\ d.As # "F2" /\ d.Ab # "F1" }

Init ==
    /\ decl \in ApiDecls
    /\ filters \in FilterConfigs
    /\ heap = InitHeap
    /\ regs = << >>
    /\ mappers = << >>
    /\ lastReduce = NoReduce
    /\ NoMapCalls
    /\ NoBuilds
    /\ NoExecutors
    /\ lastCall = NoCall
    /\ tagged = Untagged

\* the Meta dict build_schema returns: the query mapper's entries, overlaid
\* with the mutation mapper's when the mutation is valid
MergedMeta(w, b) ==
    LET qmeta == w.mappers[b.query_mapper].meta
        mmeta == w.mappers[b.mutation_mapper].meta
    IN  IF b.schema.mutation = 0 THEN qmeta
        ELSE [k \in DOMAIN qmeta \cup DOMAIN mmeta |->
                IF k \in DOMAIN mmeta THEN mmeta[k] ELSE qmeta[k]]

\* the federation module's directive list and type list (their modules are
\* not among the sources): the key and link directives and the scalar _Any,
\* a named type that is the next heap object after the built-in scalars
federation_directives == << "key", "link" >>

_Any == Len(InitHeap) + 1

federation_types == << _Any >>

\* add_federation_types(api): the resolver is set as attribute _service of
\* the root class, the federation types join api.types and the federation
\* directives are appended to api.directives
add_federation_types(a, d) ==
    [ api  |-> [a EXCEPT !.types = @ \cup Range(federation_types),
                         !.directives = @ \o federation_directives],
      decl |-> [d EXCEPT !.Rv = "F"] ]

\* the directives in mapper.applied_schema_directives after a build: those
\* applied to the root class, if the mapper built an object type for it
AppliedDirectives(w, m) ==
    IF \E o \in 1..Len(w.heap) :
         w.heap[o].by = m /\ w.heap[o].cls = "Root" /\ w.heap[o].kind = "object"
    THEN w.decl.applied ELSE << >>

\* `if d.directive not in self.directives: self.directives.append(...)` for
\* the directives ds in turn
RECURSIVE AppendMissing(_, _, _)
AppendMissing(directives, ds, i) ==
    IF i > Len(ds) THEN directives
    ELSE AppendMissing(IF \E j \in 1..Len(directives) : directives[j] = ds[i]
                       THEN directives ELSE Append(directives, ds[i]),
                       ds, i + 1)

\* api.build_schema(ignore_cache), as it acts on the API object and the world.
\* No class is a federation entity, so add_entity_type returns the schema as
\* it is, and link_directives acts on the new schema object alone
build_schema_call(ignore_cache) ==
    IF CacheHit(ignore_cache, api.cached)
    THEN /\ lastBuild' = [ done |-> TRUE, ignore_cache |-> ignore_cache,
                           built |-> FALSE, exc |-> "", ret |-> api.cached,
                           prev |-> api.cached ]
         /\ UNCHANGED << decl, filters, heap, regs, mappers, lastReduce, calls,
                         firstMap, lastMap, api, schemas >>
    ELSE /\ api.builds < MaxBuilds
         /\ \E fed \in { IF api.federation THEN add_federation_types(api, decl)
                          ELSE [api |-> api, decl |-> decl] } :
            \E b \in { Call("build_schema", << [World EXCEPT !.decl = fed.decl],
                                               filters, fed.api.types >>) } :
            LET pair == IF b.exc = ""
                        THEN [schema |-> Len(schemas) + 1, meta |-> Len(schemas) + 1]
                        ELSE NoPair
                directives ==
                    AppendMissing(
                      AppendMissing(fed.api.directives,
                                    AppliedDirectives(b.w, b.query_mapper), 1),
                      IF b.schema.mutation # 0
                      THEN AppliedDirectives(b.w, b.mutation_mapper) ELSE << >>, 1)
            IN  /\ SetWorld(b.w)
                /\ decl' = fed.decl
                /\ schemas' = IF b.exc = ""
                              THEN Append(schemas, [ query |-> b.schema.query,
                                                     mutation |-> b.schema.mutation,
                                                     types |-> b.schema.types,
                                                     directives |-> directives,
                                                     meta |-> MergedMeta(b.w, b),
                                                     filtered_query |-> b.filtered_query ])
                              ELSE schemas
                /\ api' = IF b.exc = ""
                          THEN [ fed.api EXCEPT
                                   !.cached = pair, !.builds = @ + 1,
                                   !.query_mapper = b.query_mapper,
                                   !.mutation_mapper = b.mutation_mapper,
                                   !.directives = directives ]
                          ELSE [fed.api EXCEPT !.builds = @ + 1]
                /\ lastBuild' = [ done |-> TRUE, ignore_cache |-> ignore_cache,
                                  built |-> TRUE, exc |-> b.exc, ret |-> pair,
                                  prev |-> api.cached ]
         /\ UNCHANGED << filters, lastReduce, calls, firstMap, lastMap >>

\* api.build_schema(ignore_cache)
BuildSchema(ignore_cache) ==
    /\ build_schema_call(ignore_cache)
    /\ UNCHANGED << execVars, lastCall, tagged >>

Next == \E ignore_cache \in BOOLEAN : BuildSchema(ignore_cache)

Spec == Init /\ [][Next]_vars

\* ------------------------------------------------------------------------
\* Specification SpecExec: executors made by api.executor() and operations
\* executed through them against the root object each one is bound to
\* ------------------------------------------------------------------------
\* number of executors made and number of operations executed
MaxExecutors == 2

MaxExecs == 3

\* a root class with the member increment (declared @field or
\* @field(mutable=True)) beside the read member s
ExecDecls ==
    [ Ra : {"absent"}, Rs : {"absent", "F"}, Ab : {"absent"}, As : {"absent"},
      Bs : {"absent"}, Ri : {"absent", "F", "M"}, Rr : {"absent"},
      Ao : {"absent"}, Rg : {"absent"},
      Rv : {"absent"}, Vs : {"absent"}, applied : {<< >>}, iface : {FALSE} ]

\* the body of the root class's methods run on the instance self: increment
\* adds one to _value and returns it, the other members read _value
CallMethod(objs, self, function_name) ==
    IF function_name = "increment"
    THEN [instances |-> [objs EXCEPT ![self] = @ + 1], response |-> objs[self] + 1]
    ELSE [instances |-> objs, response |-> objs[self]]

\* the resolve closure map_to_field gives a field: the method named like the
\* decorated function is looked up on the receiving object and called on it
\* (and, first, a resolver whose call leaves the receiving object as it was)
resolveDetached(objs, self, function_name) ==
    [instances |-> objs, response |-> CallMethod(objs, self, function_name).response]

resolve(objs, self, function_name) == CallMethod(objs, self, function_name)

\* executor.execute of the operation `op { key }`: the field is looked up on
\* the operation's root type of the schema and resolved on the executor's
\* root value
execute(w, objs, schema, root_value, op, key) ==
    LET type_ == IF op = "mutation" THEN schema.mutation ELSE schema.query
        found == IF type_ = 0 THEN {}
                 ELSE { f \in Range(w.heap[type_].fields) : f.key = key }
    IN  IF found = {}
        THEN [instances |-> objs, ok |-> FALSE, val |-> 0, self |-> 0]
        ELSE [ instances |-> resolve(objs, root_value, to_snake_case[key]).instances,
               ok |-> TRUE,
               val |-> resolve(objs, root_value, to_snake_case[key]).response,
               self |-> root_value ]

InitExec ==
    /\ decl \in ExecDecls
    /\ filters = << >>
    /\ heap = InitHeap
    /\ regs = << >>
    /\ mappers = << >>
    /\ lastReduce = NoReduce
    /\ NoMapCalls
    /\ NoBuilds
    /\ NoExecutors
    /\ lastCall = NoCall
    /\ tagged = Untagged

\* `callable(self.root_type) and root_value is None`, the root type being a
\* class; root_value = 0 stands for None (and, first, a test that takes
\* every root_value for missing)
NeedsRootAlways(root_value) == TRUE

NeedsRoot(root_value) == root_value = 0

\* api.executor(root_value): the schema is built (or taken from the cache);
\* without a root_value the root type is instantiated; the executor is bound
\* to the root value.  passed records the argument of the call
Executor(root_value) ==
    /\ Len(executors) < MaxExecutors
    /\ build_schema_call(FALSE)
    /\ instances' = IF lastBuild'.exc = "" /\ NeedsRoot(root_value)
                    THEN Append(instances, 0) ELSE instances
    /\ executors' = IF lastBuild'.exc = ""
                    THEN Append(executors,
                                [ schema |-> lastBuild'.ret.schema,
                                  meta |-> lastBuild'.ret.meta,
                                  root_value |-> IF NeedsRoot(root_value)
                                                 THEN Len(instances) + 1
                                                 ELSE root_value,
                                  passed |-> root_value ])
                    ELSE executors
    /\ UNCHANGED << results, lastCall, tagged, context, frames >>

\* api.executor()
ExecutorCall == Executor(0)

\* executor.execute("op { key }") on executor e
Execute(e, op, key) ==
    /\ Len(results) < MaxExecs
    /\ \E x \in { execute(World, instances, schemas[executors[e].schema],
                           executors[e].root_value, op, key) } :
         /\ instances' = x.instances
         /\ results' = Append(results, [ executor |-> e, op |-> op, key |-> key,
                                         ok |-> x.ok, val |-> x.val,
                                         self |-> x.self ])
    /\ UNCHANGED << decl, filters, heap, regs, mappers, lastReduce, calls,
                    firstMap, lastMap, api, schemas, lastBuild, executors,
                    lastCall, tagged, context, frames >>

NextExec ==
    \/ ExecutorCall
    \/ \E e \in 1..Len(executors) : \E op \in {"query", "mutation"} :
         \E key \in {"increment", "s"} : Execute(e, op, key)

SpecExec == InitExec /\ [][NextExec]_vars

\* ------------------------------------------------------------------------
\* Specification SpecRoot: the caller holds a root object of its own, whose
\* _value is 0 or a value it was given before, and makes executors with and
\* without a root_value (a root object it holds: its own or the root_value
\* attribute of an executor made before)
\* ------------------------------------------------------------------------
\* the _value of the caller's own root object
OwnRootValues == {0, 7}

InitRoot ==
    /\ decl \in { d \in ExecDecls : d.Rs = "F" /\ d.Ri # "absent" }
    /\ filters = << >>
    /\ heap = InitHeap
    /\ regs = << >>
    /\ mappers = << >>
    /\ lastReduce = NoReduce
    /\ NoMapCalls
    /\ NoBuilds
    /\ \E v \in OwnRootValues : instances = << v >>
    /\ executors = << >>
    /\ results = << >>
    /\ context = NoContext
    /\ frames = << >>
    /\ lastCall = NoCall
    /\ tagged = Untagged

NextRoot ==
    \/ \E root_value \in 0..Len(instances) : Executor(root_value)
    \/ \E e \in 1..Len(executors) : \E op \in {"query", "mutation"} :
         \E key \in {"increment", "s"} : Execute(e, op, key)

SpecRoot == InitRoot /\ [][NextRoot]_vars

\* ------------------------------------------------------------------------
\* Specification SpecFuncs: get_class_funcs applied to the declared classes,
\* in the query and in the mutable flavor
\* ------------------------------------------------------------------------
\* declarations with properties and with methods without decorator; the
\* class A may derive from the interface class I, which declares s
FuncDecls ==
    [ Ra : {"absent", "F", "M", "U"}, Rs : {"absent", "F", "P", "Pg"},
      Ab : {"absent"}, As : {"absent", "F", "M", "U", "P"}, Bs : {"absent"},
      Ri : {"absent"}, Rr : {"absent"}, Ao : {"absent"}, Rg : {"absent"},
      Rv : {"absent"}, Vs : {"absent"}, applied : {<< >>}, iface : BOOLEAN ]

\* the state of a specification that applies functions to the declarations
\* alone
NoWorld ==
    /\ filters = << >>
    /\ heap = InitHeap
    /\ regs = << >>
    /\ mappers = << >>
    /\ lastReduce = NoReduce
    /\ NoMapCalls
    /\ NoBuilds
    /\ NoExecutors

worldVars == << decl, filters, heap, regs, mappers, lastReduce, calls, firstMap,
               lastMap, api, schemas, lastBuild, instances, executors, results,
               context, frames >>

InitFuncs ==
    /\ decl \in FuncDecls
    /\ NoWorld
    /\ lastCall = NoCall
    /\ tagged = Untagged

\* get_class_funcs(c, schema, mutable)
GetClassFuncsCall(c, mutable) ==
    /\ lastCall' = [ op |-> "get_class_funcs", args |-> << c, mutable >>,
                     ret |-> get_class_funcs(decl, c, mutable) ]
    /\ UNCHANGED << worldVars, tagged >>

NextFuncs ==
    \E c \in {"Root", "A", "I"} : \E mutable \in BOOLEAN : GetClassFuncsCall(c, mutable)

SpecFuncs == InitFuncs /\ [][NextFuncs]_vars

\* ------------------------------------------------------------------------
\* Specification SpecMiddleware: the middleware chain of the objectql
\* executor around the resolvers of one execution.  The engine calls the
\* chain for a field; the resolver it ends in returns a value, returns an
\* exception object or raises, and before that it may have a further field
\* resolved against the same context.  The chain from the outside inwards
\* is middleware_local_proxy, middleware_request_context,
\* middleware_field_context, each behind the introspection test
\* ------------------------------------------------------------------------
\* number of resolutions that can be under way inside each other
MaxDepth == 3

\* the fields resolved: a returns an object type, s a scalar; the executor's
\* meta table has an entry for a only
ResolvedFields == {"a", "s"}

ContextMeta == [ a |-> {"t1"} ]

\* `if info.context.request` (and, first, a test that never finds a request)
RequestSetNever(request) == FALSE

RequestSet(request) == request # NoRequest

\* middleware_request_context up to its call of next, in the resolution
\* number depth of field_name: a request that is set is left alone; owner
\* tells whether this call set the slot
request_context_enter(ctx, field_name, depth) ==
    IF RequestSet(ctx.request) THEN [context |-> ctx, owner |-> FALSE]
    ELSE [ context |-> [ctx EXCEPT !.request = [args |-> field_name, by |-> depth]],
           owner |-> TRUE ]

\* middleware_request_context once next has returned or raised: the call
\* that set the slot resets it in its finally clause
request_context_exit(ctx, owner) ==
    IF owner THEN [ctx EXCEPT !.request = NoRequest] ELSE ctx

\* middleware_field_context up to its call of next
field_context_enter(ctx, field_name, depth) ==
    [ ctx EXCEPT !.field =
        [ meta  |-> IF field_name \in DOMAIN ContextMeta
                    THEN ContextMeta[field_name] ELSE {},
          query |-> field_name = "a",
          by    |-> depth ] ]

\* middleware_field_context once next has returned or raised
field_context_exit(ctx) == [ctx EXCEPT !.field = NoFieldContext]

InitMiddleware ==
    /\ decl \in { d \in Decls : ~ d.iface /\ \A n \in SlotNames : d[n] = "absent" }
    /\ NoWorld
    /\ lastCall = NoCall
    /\ tagged = Untagged

\* the engine resolves field_name: the adapted chain is entered and runs up
\* to the resolver; skip tells whether the operation is the introspection
\* query, for which every middleware is passed over
Resolve(field_name, skip) ==
    /\ Len(frames) < MaxDepth
    /\ frames # << >> => /\ skip = frames[1].skip
    /\ LET depth == Len(frames) + 1
           rq == request_context_enter(context, field_name, depth)
           fc == field_context_enter(rq.context, field_name, depth)
       IN  /\ context' = IF skip THEN context ELSE fc
           /\ frames' = Append(frames, [ field_name |-> field_name, skip |-> skip,
                                         owner |-> ~ skip /\ rq.owner ])
           /\ lastCall' = [ op |-> "resolve", args |-> << field_name, skip >>,
                            ret |-> [ before |-> context,
                                      after |-> IF skip THEN context ELSE fc ] ]
    /\ UNCHANGED << decl, filters, heap, regs, mappers, lastReduce, calls,
                    firstMap, lastMap, api, schemas, lastBuild, instances,
                    executors, results, tagged >>

\* the resolver of the innermost resolution ends with outcome and the chain
\* unwinds: the finally clauses of middleware_field_context and of
\* middleware_request_context run, and middleware_local_proxy raises a
\* returned exception object
Finish(outcome) ==
    /\ frames # << >>
    /\ LET top == frames[Len(frames)]
           after == IF top.skip THEN context
                    ELSE request_context_exit(field_context_exit(context), top.owner)
       IN  /\ context' = after
           /\ frames' = SubSeq(frames, 1, Len(frames) - 1)
           /\ lastCall' = [ op |-> "finish", args |-> << top, outcome >>,
                            ret |-> [ before |-> context, after |-> after,
                                      raised |-> outcome # "value" ] ]
    /\ UNCHANGED << decl, filters, heap, regs, mappers, lastReduce, calls,
                    firstMap, lastMap, api, schemas, lastBuild, instances,
                    executors, results, tagged >>

NextMiddleware ==
    \/ \E field_name \in ResolvedFields : \E skip \in BOOLEAN :
         Resolve(field_name, skip)
    \/ \E outcome \in {"value", "exception", "raise"} : Finish(outcome)

SpecMiddleware == InitMiddleware /\ [][NextMiddleware]_vars

\* ------------------------------------------------------------------------
\* Specification SpecRoles: decorators of two APIs and the schema-less
\* decorator tag one member; its role is looked up for a schema
\* ------------------------------------------------------------------------
\* the GraphQLAPI objects decorators are taken from
Apis == {"api_1", "api_2"}

\* the key of the entry a decorator without a schema writes
None == "None"

GraphQLTypes == {"field", "mutable_field"}

Metas == { {}, {"m"} }

\* the absent value a dict.get / get_value returns
Absent == << >>

Some(v) == << v >>

\* tag_value(value, graphql_type, schema, meta): _graphql is set, the entry of
\* the decorator's schema is written (over an older entry of that schema)
tag_value(value, graphql_type, schema, meta) ==
    [ _graphql |-> TRUE,
      _schemas |-> Put(value._schemas, schema,
                       [ meta |-> meta, graphql_type |-> graphql_type,
                         schema |-> schema ]) ]

is_graphql(obj, schema) ==
    /\ obj._graphql
    /\ (schema \in DOMAIN obj._schemas \/ None \in DOMAIN obj._schemas)

\* schemas_dict.get(schema, schemas_dict.get(None))
schema_info(obj, schema) ==
    IF schema \in DOMAIN obj._schemas THEN Some(obj._schemas[schema])
    ELSE IF None \in DOMAIN obj._schemas THEN Some(obj._schemas[None])
    ELSE Absent

\* the mutant of get_value: the wildcard entry is looked up first
get_valueWildcardFirst(obj, schema, key) ==
    IF ~ is_graphql(obj, schema) THEN Absent
    ELSE IF None \in DOMAIN obj._schemas THEN Some(obj._schemas[None][key])
    ELSE Some(obj._schemas[schema][key])

get_value(obj, schema, key) ==
    IF ~ is_graphql(obj, schema) THEN Absent
    ELSE IF schema_info(obj, schema) # Absent
         THEN Some(schema_info(obj, schema)[1][key])
         ELSE Absent

InitRoles ==
    /\ decl \in { d \in Decls : ~ d.iface /\ \A n \in SlotNames : d[n] = "absent" }
    /\ NoWorld
    /\ lastCall = NoCall
    /\ tagged = Untagged

\* a decorator (of an API, or the schema-less one) is applied to the member
TagValueCall(graphql_type, schema, meta) ==
    /\ tagged' = tag_value(tagged, graphql_type, schema, meta)
    /\ lastCall' = [ op |-> "tag_value", args |-> << graphql_type, schema, meta >>,
                     ret |-> << >> ]
    /\ UNCHANGED worldVars

\* the role and the metadata of the member are looked up for a schema
GetValueCall(schema) ==
    /\ lastCall' = [ op |-> "get_value", args |-> << schema >>,
                     ret |-> [ is_graphql |-> is_graphql(tagged, schema),
                               graphql_type |-> get_value(tagged, schema, "graphql_type"),
                               meta |-> get_value(tagged, schema, "meta") ] ]
    /\ UNCHANGED << worldVars, tagged >>

NextRoles ==
    \/ \E graphql_type \in GraphQLTypes : \E schema \in Apis \cup {None} :
         \E meta \in Metas : TagValueCall(graphql_type, schema, meta)
    \/ \E schema \in Apis \cup {None} : GetValueCall(schema)

SpecRoles == InitRoles /\ [][NextRoles]_vars

\* ------------------------------------------------------------------------
\* Specification SpecField: a query-flavor mapper (1) and a mutable-flavor
\* mapper (2) asked directly for the field of a declared member; the root
\* is reduced with mapper 1; and the schema of an API object is built from
\* the same declarations
\* ------------------------------------------------------------------------
\* number of direct map_to_field calls and number of schema builds
MaxFieldCalls == 2

MaxFieldBuilds == 1

\* members with and without return annotation, Optional and none-type returns
FieldDecls ==
    [ Ra : {"F", "O", "N"}, Rs : {"absent", "F", "O"}, Ab : {"absent"},
      As : {"F", "N"}, Bs : {"F"}, Ri : {"absent"}, Rr : {"absent"},
      Ao : {"absent"}, Rg : {"absent"},
      Rv : {"absent"}, Vs : {"absent"}, applied : {<< >>}, iface : {FALSE} ]

InitField ==
    /\ decl \in FieldDecls
    /\ filters = << >>
    /\ LET w == NewMapper(NewMapper(EmptyWorld(decl), FALSE, FALSE, 0, 0, ""),
                          TRUE, FALSE, 0, 0, "Mutable")
       IN  heap = w.heap /\ regs = w.regs /\ mappers = w.mappers
    /\ lastReduce = NoReduce
    /\ NoMapCalls
    /\ NoBuilds
    /\ NoExecutors
    /\ lastCall = NoCall
    /\ tagged = Untagged

\* mapper.map_to_field(func, name, key) for the member a slot declares, with
\* the name and the key the fields closure of the owning type passes
MapToFieldCall(m, slot) ==
    /\ calls < MaxFieldCalls
    /\ decl[slot] # "absent"
    /\ LET func == Member(slot, decl[slot]).func
           name == SlotInfo[slot].cls \o mappers[m].suffix
       IN  \E r \in { Call("map_to_field", << World, m, func, name, func.key >>) } :
             /\ SetWorld(r.w)
             /\ lastCall' =
                  [ op |-> "map_to_field", args |-> << m, func, name, func.key >>,
                    ret |-> [ exc |-> r.exc,
                              msg |-> IF "msg" \in DOMAIN r THEN r.msg
                                      ELSE [name |-> "", key |-> ""],
                              none |-> r.exc = "" /\ r.val = NoField,
                              field |-> IF r.exc = "" THEN r.val ELSE NoField ] ]
    /\ calls' = calls + 1
    /\ UNCHANGED << decl, filters, lastReduce, firstMap, lastMap, api, schemas,
                    lastBuild, execVars, tagged >>

NextField ==
    \/ \E m \in 1..2 : \E slot \in SlotNames : MapToFieldCall(m, slot)
    \/ ReduceQueryCall
    \/ \E ignore_cache \in BOOLEAN :
         api.builds < MaxFieldBuilds /\ BuildSchema(ignore_cache)

SpecField == InitField /\ [][NextField]_vars

\* ------------------------------------------------------------------------
\* Specification SpecArgs: the root class declares greet(who: str, to_item:
\* B); a query mapper and a mutable mapper, both with an empty registry at
\* first, build fields directly (map_to_field), map types and run the fields
\* closures of the types they registered
\* ------------------------------------------------------------------------
ArgsDecls ==
    [ Ra : {"absent", "F"}, Rs : {"absent", "F"}, Ab : {"absent"},
      As : {"absent"}, Bs : {"absent", "F"}, Ri : {"absent"}, Rr : {"absent"},
      Ao : {"absent"}, Rg : {"F", "O", "M"},
      Rv : {"absent"}, Vs : {"absent"}, applied : {<< >>}, iface : {FALSE} ]

ArgsTypes == {"Root", "B", "str"}

InitArgs ==
    /\ decl \in ArgsDecls
    /\ filters = << >>
    /\ LET w == NewMapper(NewMapper(EmptyWorld(decl), FALSE, FALSE, 0, 0, ""),
                          TRUE, FALSE, 0, 0, "Mutable")
       IN  heap = w.heap /\ regs = w.regs /\ mappers = w.mappers
    /\ lastReduce = NoReduce
    /\ NoMapCalls
    /\ NoBuilds
    /\ NoExecutors
    /\ lastCall = NoCall
    /\ tagged = Untagged

NextArgs ==
    \/ \E m \in 1..2 : \E slot \in SlotNames : MapToFieldCall(m, slot)
    \/ \E m \in 1..2 : \E T \in ArgsTypes : MapCall(m, T)
    \/ \E o \in 1..Len(heap) : FieldsCall(o)

SpecArgs == InitArgs /\ [][NextArgs]_vars

\* ------------------------------------------------------------------------
\* Specification SpecRebuild: one API object, with or without federation,
\* constructed with or without a directive, whose root class may have a
\* directive applied; the schema is built and rebuilt
\* ------------------------------------------------------------------------
RebuildDecls ==
    [ Ra : {"absent", "F", "F1", "M"}, Rs : {"F"}, Ab : {"absent"},
      As : {"absent", "F"}, Bs : {"absent"}, Ri : {"absent"}, Rr : {"absent"},
      Ao : {"absent"}, Rg : {"absent"}, Rv : {"absent"}, Vs : {"F"},
      applied : {<< >>, << "tag" >>}, iface : {FALSE} ]

\* the directives argument of the constructor
DirectiveArgs == { << >>, << "tag" >>, << "auth" >> }

InitRebuild ==
    /\ decl \in RebuildDecls
    /\ filters \in { << >>, << {"t1"} >> }
    /\ heap = Append(InitHeap, NewObj("scalar", "_Any", "", 0, FALSE))
    /\ regs = << >>
    /\ mappers = << >>
    /\ lastReduce = NoReduce
    /\ NoMapCalls
    /\ \E federation \in BOOLEAN : \E directives \in DirectiveArgs :
         api = [NoApi EXCEPT !.federation = federation, !.directives = directives]
    /\ schemas = << >>
    /\ lastBuild = NoBuild
    /\ NoExecutors
    /\ lastCall = NoCall
    /\ tagged = Untagged

SpecRebuild == InitRebuild /\ [][Next]_vars

\* ------------------------------------------------------------------------
\* Specification SpecEnum: one declared enum class, mapped by map_to_enum;
\* the serialize method of the mapped type is applied to members and to raw
\* values
\* ------------------------------------------------------------------------
\* Python values: ints, strings and None
PyInt(n) == [type |-> "int", int |-> n, str |-> ""]

PyStr(x) == [type |-> "str", int |-> 0, str |-> x]

PyNone == [type |-> "NoneType", int |-> 0, str |-> ""]

\* graphql.Undefined
Undefined == [type |-> "UndefinedType", int |-> 0, str |-> ""]

RawValues == { PyInt(0), PyInt(1), PyInt(2), PyStr(""), PyStr("x"), PyStr("y"),
               PyNone }

MemberNames == {"P", "Q"}

\* the values a member of an enum with the given mix-in type can have
MemberValues(mixin) ==
    { v \in { PyInt(0), PyInt(1), PyStr(""), PyStr("x") } :
        mixin = "" \/ v.type = mixin }

\* enum classes: plain (mixin ""), class E(str, Enum), class E(int, Enum); one
\* or two members with values of their own
EnumDecls ==
    UNION { { [ mixin |-> mixin, members |-> f ] :
                f \in { g \in [ names -> MemberValues(mixin) ] :
                          \A x, y \in names : x # y => g[x] # g[y] } } :
            << mixin, names >> \in {"", "str", "int"} \X (SUBSET MemberNames \ {{}}) }

\* the member of enum class e with the given name
EnumMember(e, name) == [type |-> "member", name |-> name, value |-> e.members[name]]

\* isinstance(value, enum.Enum)
IsEnumMember(value) == value.type = "member"

\* bool(value): a member of a plain enum is true, a member of an enum with a
\* mix-in type is as true as its value; 0, "" and None are false
Truthy(e, value) ==
    LET raw == IF IsEnumMember(value) THEN value.value ELSE value
    IN  IF IsEnumMember(value) /\ e.mixin = "" THEN TRUE
        ELSE raw # PyInt(0) /\ raw # PyStr("") /\ raw # PyNone

\* the reverse lookup of the mapped enum type: underlying value -> name
_value_lookup(e) ==
    [ v \in { e.members[n] : n \in DOMAIN e.members } |->
        CHOOSE n \in DOMAIN e.members : e.members[n] = v ]

\* the lookup of the mapped enum type by name: name -> underlying value
values(e) == e.members

\* the serialize method map_to_enum attaches to the mapped enum type
serialize(e, value) ==
    IF Truthy(e, value)
    THEN LET v == IF IsEnumMember(value) THEN value.value ELSE value
         IN  IF v \in DOMAIN _value_lookup(e) THEN PyStr(_value_lookup(e)[v])
             ELSE Undefined
    ELSE PyNone

InitEnum ==
    /\ decl \in EnumDecls
    /\ NoWorld
    /\ lastCall = NoCall
    /\ tagged = Untagged

\* mapped_enum_type.serialize(value)
SerializeCall(value) ==
    /\ lastCall' = [ op |-> "serialize", args |-> << value >>,
                     ret |-> serialize(decl, value) ]
    /\ UNCHANGED << worldVars, tagged >>

NextEnum ==
    \/ \E name \in DOMAIN decl.members : SerializeCall(EnumMember(decl, name))
    \/ \E value \in RawValues : SerializeCall(value)

SpecEnum == InitEnum /\ [][NextEnum]_vars

\* ------------------------------------------------------------------------
\* Specification SpecMutation: a mutable-flavor mapper (2) over the registry
\* copy of a query-flavor mapper (1), with the types of Root and A mapped;
\* reduce_mutation is applied to the mutation root, before or after the
\* query type of A was registered under its name
\* ------------------------------------------------------------------------
\* the wrappers of the type of Root.a, from the outermost inwards, for the
\* return types Optional[A], A, Optional[List[Optional[A]]], List[Optional[A]],
\* Optional[List[A]] and List[A]
WrapStacks ==
    { << >>, << "NonNull" >>, << "List" >>, << "NonNull", "List" >>,
      << "List", "NonNull" >>, << "NonNull", "List", "NonNull" >> }

\* the metadata dict Root.a is decorated with: none, {"tags": ["t1"]} or
\* {RESOLVE_TO_MUTABLE: True}
MetaDicts ==
    { [tags |-> {}, resolve_to_mutable |-> FALSE],
      [tags |-> {"t1"}, resolve_to_mutable |-> FALSE],
      [tags |-> {}, resolve_to_mutable |-> TRUE] }

\* heap ids of the query-flavor type of A, its mutable-flavor type and the
\* mutation root
QueryA == 3

MutableA == 4

MutationRoot == 5

\* a type object whose fields have been computed
Evaluated(obj, fs) == [obj EXCEPT !.fst = "done", !.ist = "done", !.fields = fs]

\* the types as the two mappers built them: A has the read field s and the
\* mutable field increment, Root the member a returning A and the read
\* field s; the interface I declares s, and Root is a subclass of I or not
MutationHeap(wraps, graphql_type, implements) ==
    InitHeap \o
    << Evaluated(NewObj("object", "A", "A", 1, TRUE),
                 << NewField("s", << "NonNull" >>, GraphQLString, FALSE) >>),
       Evaluated(NewObj("object", "AMutable", "A", 2, TRUE),
                 << NewField("increment", << "NonNull" >>, GraphQLInt, TRUE),
                    NewField("s", << "NonNull" >>, GraphQLString, FALSE) >>),
       [ Evaluated(NewObj("object", "RootMutable", "Root", 2, TRUE),
                   << NewField("a", wraps, MutableA, graphql_type = "mutable_field"),
                      NewField("s", << "NonNull" >>, GraphQLString, FALSE) >>)
           EXCEPT !.interfaces = IF implements THEN << MutationRoot + 1 >>
                                 ELSE << >> ],
       Evaluated(NewObj("interface", "IMutableInterface", "I", 2, TRUE),
                 << NewField("s", << "NonNull" >>, GraphQLString, FALSE) >>) >>

\* the meta table of the mutable-flavor mapper: map_to_object enters a member
\* only if its metadata dict is not empty
MutationMeta(meta, graphql_type) ==
    IF meta.tags = {} /\ ~ meta.resolve_to_mutable THEN EmptyFn
    ELSE Put(EmptyFn, << "RootMutable", "a" >>,
             [ tags |-> meta.tags, graphql_type |-> graphql_type,
               resolve_to_mutable |-> meta.resolve_to_mutable ])

\* every thunk has run: the declarations are not read again
InitMutation ==
    /\ decl \in { d \in Decls : ~ d.iface /\ \A n \in SlotNames : d[n] = "absent" }
    /\ filters = << >>
    /\ \E wraps \in WrapStacks : \E graphql_type \in {"field", "mutable_field"} :
       \E meta \in MetaDicts : \E implements \in BOOLEAN :
         LET q == [ x \in { << "py", "A", FALSE, FALSE, "" >> } |-> QueryA ]
             mu == Put(Put(Put(q, << "py", "A", FALSE, TRUE, "Mutable" >>, MutableA),
                           << "py", "Root", FALSE, TRUE, "Mutable" >>, MutationRoot),
                       << "py", "I", FALSE, TRUE, "Mutable" >>, MutationRoot + 1)
         IN  /\ heap = MutationHeap(wraps, graphql_type, implements)
             /\ regs = << q, mu >>
             /\ mappers =
                  << [ as_mutable |-> FALSE, as_input |-> FALSE, registry |-> 1,
                       reverse_registry |-> EmptyFn, rev |-> 1, suffix |-> "",
                       meta |-> EmptyFn ],
                     [ as_mutable |-> TRUE, as_input |-> FALSE, registry |-> 2,
                       reverse_registry |-> EmptyFn, rev |-> 2, suffix |-> "Mutable",
                       meta |-> MutationMeta(meta, graphql_type) ] >>
    /\ lastReduce = NoReduce
    /\ NoMapCalls
    /\ NoBuilds
    /\ NoExecutors
    /\ lastCall = NoCall
    /\ tagged = Untagged

\* mapper.register(A, "A", <the query type of A>) on the mutable-flavor mapper
RegisterCall ==
    /\ << "A" >> \notin DOMAIN regs[mappers[2].registry]
    /\ regs' = [regs EXCEPT ![mappers[2].registry] = Put(@, << "A" >>, QueryA)]
    /\ mappers' = [mappers EXCEPT ![2].reverse_registry = Put(@, QueryA, Py("A"))]
    /\ lastCall' = [ op |-> "register", args |-> << "A" >>, ret |-> << >> ]
    /\ UNCHANGED << decl, filters, heap, lastReduce, calls, firstMap, lastMap, api,
                    schemas, lastBuild, execVars, tagged >>

\* GraphQLSchemaReducer.reduce_mutation(mapper 2, the mutation root)
ReduceMutationCall ==
    /\ lastCall.op # "reduce_mutation"
    /\ \E r \in { Call("reduce_mutation", << World, 2, Gql(World, MutationRoot) >>) } :
         /\ SetWorld(r.w)
         /\ lastCall' = [ op |-> "reduce_mutation",
                          args |-> << heap[MutationRoot].fields, heap >>,
                          ret |-> [ exc |-> r.exc, mutation |-> r.val ] ]
    /\ UNCHANGED << decl, filters, lastReduce, calls, firstMap, lastMap, api,
                    schemas, lastBuild, execVars, tagged >>

NextMutation ==
    \/ RegisterCall
    \/ ReduceMutationCall

SpecMutation == InitMutation /\ [][NextMutation]_vars

\* ------------------------------------------------------------------------
\* Specification SpecCycle: one GraphQLAPI object whose root class Root may
\* return itself (member root) or the class A, which may return Root (member
\* owner); the schema is built, and a query-flavor mapper (1) is handed the
\* classes and the pydantic models directly
\* ------------------------------------------------------------------------
CycleDecls ==
    [ Ra : {"absent", "F"}, Rs : {"F"}, Ab : {"absent"}, As : {"absent"},
      Bs : {"absent"}, Ri : {"absent"}, Rr : {"absent", "F"},
      Ao : {"absent", "F"}, Rg : {"absent"},
      Rv : {"absent"}, Vs : {"absent"}, applied : {<< >>}, iface : {FALSE} ]

CycleTypes == {"Root", "A", "Dept", "Employee"}

InitCycle ==
    /\ decl \in CycleDecls
    /\ filters = << >>
    /\ LET w == NewMapper(EmptyWorld(decl), FALSE, FALSE, 0, 0, "")
       IN  heap = w.heap /\ regs = w.regs /\ mappers = w.mappers
    /\ lastReduce = NoReduce
    /\ NoMapCalls
    /\ NoBuilds
    /\ NoExecutors
    /\ lastCall = NoCall
    /\ tagged = Untagged

NextCycle ==
    \/ \E T \in CycleTypes : MapCall(1, T)
    \/ \E o \in 1..Len(heap) : FieldsCall(o)
    \/ api.builds < MaxFieldBuilds /\ BuildSchema(TRUE)

SpecCycle == InitCycle /\ [][NextCycle]_vars

\* ------------------------------------------------------------------------
\* Specification SpecReverse: a query-flavor mapper is handed classes and
\* Optional[...] of them in any order, and asked for the class behind the
\* types it registered
\* ------------------------------------------------------------------------
ReverseTypes == {"Root", "A", "Optional[A]", "str", "Optional[str]"}

\* mapper.rmap(<the type `of` inside the wrappers>)
RmapCall(wraps, of) ==
    /\ of \in types(World, 1) \ {0}
    /\ lastCall' = [ op |-> "rmap", args |-> << wraps, of >>,
                     ret |-> rmap(World, 1, wraps, of) ]
    /\ UNCHANGED << decl, filters, heap, regs, mappers, lastReduce, calls, firstMap,
                    lastMap, api, schemas, lastBuild, execVars, tagged >>

NextReverse ==
    \/ \E T \in ReverseTypes : MapCall(1, T)
    \/ \E wraps \in { << >>, << "NonNull" >>, << "NonNull", "List", "NonNull" >> } :
         \E of \in 1..Len(heap) : RmapCall(wraps, of)

SpecReverse == InitCycle /\ [][NextReverse]_vars

\* ------------------------------------------------------------------------
\* Specification SpecClasses: the class Base and its subclass Sub are marked
\* with @type / @type(interface=True), by the decorator of an API or by the
\* schema-less one, in any order
\* ------------------------------------------------------------------------
\* Sub.mro() and Base.mro() without object
ClassMro == [ Base |-> << "Base" >>, Sub |-> << "Sub", "Base" >> ]

\* the attributes of the two classes: each class's own __dict__ (_graphql
\* unset is FALSE, _defined_on unset is "", _schemas unset is 0, otherwise
\* the identity of a dict) and the dicts that exist
NoClassTags ==
    [ own |-> [ c \in DOMAIN ClassMro |->
                  [ _graphql |-> FALSE, _defined_on |-> "", _schemas |-> 0 ] ],
      dicts |-> << >> ]

\* the class in value.mro() whose __dict__ holds the attribute, or "" when
\* hasattr(value, attr) is false
RECURSIVE Holder(_, _, _, _)
Holder(st, value, attr, i) ==
    IF i > Len(ClassMro[value]) THEN ""
    ELSE IF st.own[ClassMro[value][i]][attr] # NoClassTags.own[ClassMro[value][i]][attr]
         THEN ClassMro[value][i]
         ELSE Holder(st, value, attr, i + 1)

\* the class as get_value and is_graphql see it: getattr follows the MRO
ClassObj(st, value) ==
    [ _graphql |-> Holder(st, value, "_graphql", 1) # "",
      _schemas |-> IF Holder(st, value, "_schemas", 1) = "" THEN << >>
                   ELSE st.dicts[st.own[Holder(st, value, "_schemas", 1)]._schemas] ]

\* tag_value(value, graphql_type, schema) for a class: the three attributes
\* are set on the class unless hasattr finds them, and the entry of the
\* schema is written into the dict getattr(value, "_schemas") gives
tag_class(st, value, graphql_type, schema) ==
    LET st1 == IF Holder(st, value, "_graphql", 1) = ""
               THEN [st EXCEPT !.own[value]._graphql = TRUE] ELSE st
        st2 == IF Holder(st1, value, "_defined_on", 1) = ""
               THEN [st1 EXCEPT !.own[value]._defined_on = value] ELSE st1
        st3 == IF Holder(st2, value, "_schemas", 1) = ""
               THEN [st2 EXCEPT !.dicts = Append(@, EmptyFn),
                                !.own[value]._schemas = Len(st2.dicts) + 1]
               ELSE st2
        d == st3.own[Holder(st3, value, "_schemas", 1)]._schemas
    IN  [st3 EXCEPT !.dicts[d] =
           Put(@, schema, [ defined_on |-> value, meta |-> {},
                            graphql_type |-> graphql_type, schema |-> schema ])]

\* mapper.is_interface(type_, schema) on the marked classes
is_interface_class(st, type_, schema) ==
    /\ is_graphql(ClassObj(st, type_), schema)
    /\ get_value(ClassObj(st, type_), schema, "graphql_type") = Some("interface")
    /\ get_value(ClassObj(st, type_), schema, "defined_on") = Some(type_)

InitClasses ==
    /\ decl \in { d \in Decls : ~ d.iface /\ \A n \in SlotNames : d[n] = "absent" }
    /\ NoWorld
    /\ lastCall = NoCall
    /\ tagged = NoClassTags

\* a class decorator is applied to one of the classes
TagClassCall(value, graphql_type, schema) ==
    /\ tagged' = tag_class(tagged, value, graphql_type, schema)
    /\ lastCall' = [ op |-> "tag_class", args |-> << value, graphql_type, schema >>,
                     ret |-> tagged ]
    /\ UNCHANGED worldVars

NextClasses ==
    \E value \in DOMAIN ClassMro : \E graphql_type \in {"object", "interface"} :
        \E schema \in {"api_1", None} : TagClassCall(value, graphql_type, schema)

SpecClasses == InitClasses /\ [][NextClasses]_vars

\* ------------------------------------------------------------------------
\* Specification SpecDirective: one mapper; add_applied_directives is handed
\* a schema element of every GraphQL kind and a list of applied directives
\* ------------------------------------------------------------------------
\* number of elements the mapper is handed
MaxApplied == 1

DirectiveLocations ==
    { "OBJECT", "INTERFACE", "ENUM", "INPUT_OBJECT", "UNION", "SCALAR",
      "FIELD_DEFINITION" }

\* the directives: one per single location, and one declared for objects
\* and fields
Directives ==
    { [ locations |-> {l} ] : l \in DirectiveLocations }
      \cup { [ locations |-> {"OBJECT", "FIELD_DEFINITION"} ] }

\* the lists get_applied_directives can return: none, one directive, or one
\* directive followed by the directive for objects and fields
AppliedLists ==
    { << >> } \cup { << d >> : d \in Directives }
      \cup { << d, [ locations |-> {"OBJECT", "FIELD_DEFINITION"} ] >> :
               d \in Directives }

\* the schema elements: a type object of each kind, or a GraphQLField
ElementKinds ==
    { "object", "interface", "enum", "input", "union", "scalar", "field" }

\* the location add_applied_directives settles on for an element; the tests
\* are made in this order, and is_input_type holds of scalars, enums and
\* input objects
LocationOf(kind) ==
    IF kind = "object" THEN "OBJECT"
    ELSE IF kind = "interface" THEN "INTERFACE"
    ELSE IF kind = "enum" THEN "ENUM"
    ELSE IF is_input_type([ heap |-> << [ kind |-> kind ] >> ], 1) THEN "INPUT_OBJECT"
    ELSE IF kind = "union" THEN "UNION"
    ELSE IF kind = "scalar" THEN "SCALAR"
    ELSE IF kind = "field" THEN "FIELD_DEFINITION"
    ELSE None

\* GraphQLTypeMapper.add_applied_directives(graphql_type, key, value), with
\* applied_directives = get_applied_directives(value); mp is the mapper
add_applied_directives(mp, kind, key, applied_directives) ==
    IF applied_directives = << >> THEN [ mp |-> mp, exc |-> "" ]
    ELSE
      LET mp1 == [mp EXCEPT !.applied_schema_directives =
                    Append(@, << key, kind, applied_directives >>)]
          location == LocationOf(kind)
      IN  IF location = None THEN [ mp |-> mp1, exc |-> "TypeError" ]
          ELSE IF \E i \in 1..Len(applied_directives) :
                     location \notin applied_directives[i].locations
               THEN [ mp |-> mp1, exc |-> "TypeError" ]
          ELSE [ mp |-> mp1, exc |-> "" ]

InitDirective ==
    /\ decl \in { d \in Decls : ~ d.iface /\ \A n \in SlotNames : d[n] = "absent" }
    /\ filters = << >>
    /\ heap = InitHeap
    /\ regs = << EmptyFn >>
    /\ lastReduce = NoReduce
    /\ NoMapCalls
    /\ NoBuilds
    /\ NoExecutors
    /\ mappers = << [ as_mutable |-> FALSE, as_input |-> FALSE, registry |-> 1,
                      reverse_registry |-> EmptyFn, rev |-> 1, suffix |-> "",
                      meta |-> EmptyFn, applied_schema_directives |-> << >> ] >>
    /\ lastCall = NoCall
    /\ tagged = Untagged

\* mapper.add_applied_directives(<an element of the kind>, key, value)
AddAppliedDirectivesCall(kind, applied_directives) ==
    /\ Len(mappers[1].applied_schema_directives) < MaxApplied
    /\ \E r \in { add_applied_directives(mappers[1], kind, "k", applied_directives) } :
         /\ mappers' = << r.mp >>
         /\ lastCall' = [ op |-> "add_applied_directives",
                          args |-> << kind, applied_directives >>,
                          ret |-> [ exc |-> r.exc ] ]
    /\ UNCHANGED << decl, filters, heap, regs, lastReduce, calls, firstMap, lastMap,
                    api, schemas, lastBuild, execVars, tagged >>

NextDirective ==
    \E kind \in ElementKinds : \E applied_directives \in AppliedLists :
        AddAppliedDirectivesCall(kind, applied_directives)

SpecDirective == InitDirective /\ [][NextDirective]_vars

\* ------------------------------------------------------------------------
\* Properties of reduce_query (specification SpecReduce)
\* ------------------------------------------------------------------------
ClassNames == {"Root", "A", "B", "I"}

HeapIds == 1..Len(heap)

FieldSet(o) == { heap[o].fields[i] : i \in 1..Len(heap[o].fields) }

IsComposite(o) == heap[o].kind \in {"object", "interface"}

\* the types reachable from the types in frontier through their present fields
RECURSIVE ReachVia(_, _)
ReachVia(seen, frontier) ==
    LET next == { f.of : f \in UNION { FieldSet(o) : o \in frontier } } \ seen
    IN  IF next = {} THEN seen ELSE ReachVia(seen \cup next, next)

Reach(root) == ReachVia({root}, {root})

\* reduce_query has returned normally
Reduced == lastReduce.done /\ lastReduce.exc = ""

\* some configured filter vetoes the field with these tags
AnyFilterVetoes(tags) == \E j \in 1..Len(filters) : filters[j] \cap tags # {}

\* the tags the Meta table of the reduced mapper holds for field key of type o
MetaTags(o, key) ==
    MetaGet(mappers[lastReduce.m].meta, heap[o].name, to_snake_case[key]).tags

\* all members of class c, and its query-flavor members, as sets
AllMembers(c) ==
    LET fs == CollectMembers(decl, Mro(decl, c), 1, << >>)
    IN  { fs[i].func : i \in 1..Len(fs) }

QueryMembers(c) ==
    LET fs == get_class_funcs(decl, c, FALSE) IN { fs[i] : i \in 1..Len(fs) }

\* the class a member returns, Optional or not
ReturnClass(f) == IF IsOptional(f.ret) THEN OptionalArg[f.ret] ELSE f.ret

\* asking the query-flavor type of class c for its fields raises, or yields
\* no field at all
DeclBroken(c) ==
    QueryMembers(c) = {} \/ \E f \in QueryMembers(c) : f.ret = "NoneType"

\* the classes the declarations make reachable from Root through query-flavor
\* members (a broken class has no fields to go on from)
RECURSIVE DeclReachFrom(_)
DeclReachFrom(S) ==
    LET rets == { ReturnClass(g) : g \in UNION { QueryMembers(c) :
                                          c \in { x \in S : ~ DeclBroken(x) } } }
        next == (rets \cap ClassNames) \ S
    IN  IF next = {} THEN S ELSE DeclReachFrom(S \cup next)

DeclReachable == DeclReachFrom({"Root"})

\* the object types built for class c
ObjectsOf(c) == { o \in HeapIds : heap[o].cls = c /\ heap[o].kind = "object" }

\* C4 (as stated): after reduce_query no object or interface type reachable
\* from the root still has a field that some filter vetoes, and every member
\* of a walked type that no filter vetoes and whose type is valid is kept.
C4_NoVetoedFieldRemains ==
    Reduced =>
      /\ \A o \in Reach(lastReduce.ret) :
           IsComposite(o) =>
             \A f \in FieldSet(o) : ~ AnyFilterVetoes(MetaTags(o, f.key))
      /\ \A o \in lastReduce.checked_types \ lastReduce.invalid_types :
           \A g \in QueryMembers(heap[o].cls) :
             ( /\ ~ AnyFilterVetoes(g.tags)
               /\ ~ (g.ret \in ClassNames /\ DeclBroken(g.ret)) )
             => to_camel_case[g.key] \in FieldKeys(heap[o].fields)

\* C5 (as stated): when asking a reachable type for its fields raises (zero
\* fields or a deferred mapping error) reduce_query does not raise, records
\* the type invalid, leaves no field that returns it on any type, purges it
\* from the registry and returns the root.
C5_BrokenTypeFullyRemoved ==
    lastReduce.done =>
      /\ lastReduce.exc = ""
      /\ heap[lastReduce.ret].cls = "Root"
      /\ \A c \in DeclReachable \ {"Root"} :
           DeclBroken(c) =>
             \A o \in ObjectsOf(c) :
               /\ o \in lastReduce.invalid_types
               /\ \A p \in HeapIds : \A f \in FieldSet(p) : f.of # o
               /\ o \notin types(World, lastReduce.m)

\* C6 (as stated): after reduce_query no non-root object type still reachable
\* from the root through the remaining fields has zero fields.
C6_NoEmptyReachableObject ==
    Reduced =>
      \A o \in Reach(lastReduce.ret) \ {lastReduce.ret} :
        (heap[o].kind = "object" /\ heap[o].fst = "done")
          => Len(heap[o].fields) > 0

\* C10 (as stated): no mutable_field member is a field of a query-flavor
\* type, get_class_funcs(mutable=False) yields members of role "field" only,
\* and a type whose only members are mutable fields is pruned from the query
\* graph.
C10_MutableStaysOutOfQuery ==
    /\ \A o \in HeapIds :
         (heap[o].by # 0 /\ ~ mappers[heap[o].by].as_mutable)
           => \A f \in FieldSet(o) : ~ f.mutable
    /\ \A c \in ClassNames : \A g \in QueryMembers(c) : g.graphql_type = "field"
    /\ Reduced =>
         \A c \in ClassNames \ {"Root"} :
           ( /\ AllMembers(c) # {}
             /\ \A g \in AllMembers(c) : g.graphql_type = "mutable_field" )
           => ObjectsOf(c) \cap Reach(lastReduce.ret) = {}

\* ------------------------------------------------------------------------
\* Properties of map (specification SpecMap)
\* ------------------------------------------------------------------------
\* C1 (as stated): a repeated map(T) on the same mapper returns the object
\* the first call returned and is answered from the registry, with nothing
\* built (the none type, for which map returns null ahead of the registry,
\* aside).
C1_SecondCallFromRegistry ==
    (lastMap.again /\ lastMap.T # "NoneType") =>
      /\ lastMap.ret = lastMap.prev
      /\ lastMap.how = "hit"
      /\ ~ lastMap.built

\* C1 (amended): a repeated map(T) on the same mapper returns what the first
\* call returned, whatever calls came in between.  It is answered from the
\* registry with nothing built whenever the first call cached its result;
\* the none type is answered null by the shortcut ahead of the registry, and
\* a type whose built value the validation gate rejected is never cached:
\* every call on it builds again and returns null.
C1_RepeatedMapSameAnswer ==
    lastMap.again =>
      /\ lastMap.ret = lastMap.prev
      /\ lastMap.how \in {"hit", "none", "rejected"}
      /\ lastMap.how = "hit" => ~ lastMap.built
      /\ lastMap.how = "none" =>
           lastMap.T = "NoneType" /\ lastMap.ret = 0 /\ ~ lastMap.built
      /\ lastMap.how = "rejected" =>
           lastMap.prevHow = "rejected" /\ lastMap.ret = 0
      /\ lastMap.prevHow \in {"registered", "null", "hit"} => lastMap.how = "hit"

\* a second map(T) that returned the registered object after other calls
C1_Witness ==
    /\ lastMap.again
    /\ lastMap.how = "hit"
    /\ lastMap.ret # 0
    /\ lastMap.between >= 1

\* ------------------------------------------------------------------------
\* Properties of build_schema (specification Spec)
\* ------------------------------------------------------------------------
SchemaIds == 1..Len(schemas)

\* the query type of schema i and the reduced root it was built from
QueryOf(i) == heap[schemas[i].query]

ReducedRootOf(i) == heap[schemas[i].filtered_query]

\* C2: once a build has completed, a build_schema call without ignore_cache
\* returns the cached (schema, meta) pair itself and builds nothing; a call
\* with ignore_cache builds a new pair, and whatever pair a call returned is
\* the cached one afterwards.
C2_CachedPairReturned ==
    lastBuild.done =>
      /\ (~ lastBuild.ignore_cache /\ lastBuild.prev # NoPair) =>
           (lastBuild.ret = lastBuild.prev /\ ~ lastBuild.built)
      /\ lastBuild.ignore_cache =>
           (lastBuild.built /\ lastBuild.ret # lastBuild.prev)
      /\ lastBuild.exc = "" => api.cached = lastBuild.ret

\* a call answered from the cache after ignore_cache had replaced the pair
C2_Witness ==
    /\ lastBuild.done
    /\ ~ lastBuild.built
    /\ lastBuild.ret = lastBuild.prev
    /\ lastBuild.ret.schema = 2
    /\ api.builds = 2

C9_UniqueTypeNames ==
    \A i \in SchemaIds :
      \A t1, t2 \in schemas[i].types :
        heap[t1].name = heap[t2].name => t1 = t2

\* ------------------------------------------------------------------------
\* Properties of execution (specification SpecExec)
\* ------------------------------------------------------------------------
\* the executions through the executor of result i that ran increment, up to
\* and including result i
IncrementsUpTo(i) ==
    { j \in 1..i : /\ results[j].executor = results[i].executor
                   /\ results[j].ok
                   /\ results[j].key = "increment" }

\* C11: the k-th `mutation { increment }` executed through one executor
\* returns k: every execution calls the method on the root instance the
\* executor is bound to and sees the state the previous execution left.
C11_IncrementCountsUp ==
    \A i \in 1..Len(results) :
      (results[i].op = "mutation" /\ results[i].key = "increment" /\ results[i].ok)
        => /\ results[i].val = Cardinality(IncrementsUpTo(i))
           /\ results[i].self = executors[results[i].executor].root_value

\* three mutations in a row through one executor that returned 1, 2, 3
C11_Witness ==
    /\ Len(results) = 3
    /\ \A i \in 1..3 : /\ results[i].op = "mutation"
                        /\ results[i].key = "increment"
                        /\ results[i].executor = results[1].executor
                        /\ results[i].ok
                        /\ results[i].val = i

\* ------------------------------------------------------------------------
\* Properties of get_class_funcs (specification SpecFuncs)
\* ------------------------------------------------------------------------
\* get_class_funcs has been called
FuncsCalled == lastCall.op = "get_class_funcs"

\* the entries get_class_funcs returned for key k
EntriesOf(k) ==
    { lastCall.ret[i] : i \in { j \in 1..Len(lastCall.ret) : lastCall.ret[j].key = k } }

\* the attribute named k of class c (the most derived definition), as a set
AttributeOf(c, k) == LookupFrom(decl, Mro(decl, c), 1, k)

\* the nearest definition of k along the MRO whose function is marked
RECURSIVE MarkedFrom(_, _, _)
MarkedFrom(mro, i, k) ==
    IF i > Len(mro) THEN {}
    ELSE LET own == { m \in OwnMembers(decl, mro[i]) :
                        m.key = k /\ m.func.graphql_type # "" }
         IN  IF own # {} THEN own ELSE MarkedFrom(mro, i + 1, k)

\* C12 (as stated): get_class_funcs yields one entry per name; in the
\* mutable flavor the entry of a property with a field getter and a
\* mutable_field setter is the setter, and a name with only a field version
\* is entered with that version; in the query flavor the entry is the getter.
C12_MutableVersionPreferred ==
    FuncsCalled =>
      LET c == lastCall.args[1]
          mutable == lastCall.args[2]
      IN  \A k \in { SortedKeys[i] : i \in 1..Len(SortedKeys) } :
            /\ Cardinality(EntriesOf(k)) <= 1
            /\ \A m \in AttributeOf(c, k) :
                 /\ (mutable /\ m.property /\ m.func.graphql_type = "field"
                       /\ m.fset.graphql_type = "mutable_field")
                      => EntriesOf(k) = {m.fset}
                 /\ (mutable /\ m.func.graphql_type = "field" /\ m.fset = NoFunc)
                      => EntriesOf(k) = {m.func}
                 /\ (~ mutable /\ m.func.graphql_type = "field")
                      => EntriesOf(k) = {m.func}

\* C13 (as stated): get_class_funcs enters every name once, with the most
\* derived definition when that one is marked, and a name whose most derived
\* definition is unmarked while an ancestor's is marked is entered with the
\* role and metadata of the nearest marked ancestor version.
C13_UnmarkedOverrideInherits ==
    FuncsCalled =>
      LET c == lastCall.args[1]
          mutable == lastCall.args[2]
      IN  \A k \in { SortedKeys[i] : i \in 1..Len(SortedKeys) } :
            /\ Cardinality(EntriesOf(k)) <= 1
            /\ \A m \in AttributeOf(c, k) :
                 (m.func.graphql_type # "" /\ _matches_criterion(m.func, mutable))
                   => EntriesOf(k) = {m.func}
            /\ \A m \in AttributeOf(c, k) : \A a \in MarkedFrom(Mro(decl, c), 1, k) :
                 (m.func.graphql_type = "" /\ _matches_criterion(a.func, mutable))
                   => \E e \in EntriesOf(k) :
                        /\ e.graphql_type = a.func.graphql_type
                        /\ e.tags = a.func.tags

\* ------------------------------------------------------------------------
\* Properties of the role lookup (specification SpecRoles)
\* ------------------------------------------------------------------------
RoleLookedUp == lastCall.op = "get_value"

\* the schemas (and the wildcard) the member has been marked for
MarkedFor == DOMAIN tagged._schemas

\* C14: the role lookup is per schema with wildcard fallback: a member marked
\* only for other schemas is not a GraphQL member of the schema asked for and
\* has no role there; a member marked with the wildcard is a member of every
\* schema; and where the schema asked for has an entry of its own, the role
\* and the metadata of that entry are returned, the wildcard entry's only
\* where it has none.
C14_RolePerSchemaWithWildcard ==
    RoleLookedUp =>
        LET schema == lastCall.args[1]
            ret == lastCall.ret
        IN  /\ (schema \notin MarkedFor /\ None \notin MarkedFor)
                   => /\ ~ ret.is_graphql
                      /\ ret.graphql_type = Absent
                      /\ ret.meta = Absent
            /\ None \in MarkedFor => ret.is_graphql
            /\ schema \in MarkedFor
                   => /\ ret.is_graphql
                      /\ ret.graphql_type = Some(tagged._schemas[schema].graphql_type)
                      /\ ret.meta = Some(tagged._schemas[schema].meta)
            /\ (schema \notin MarkedFor /\ None \in MarkedFor)
                   => /\ ret.graphql_type = Some(tagged._schemas[None].graphql_type)
                      /\ ret.meta = Some(tagged._schemas[None].meta)

\* a member marked for api_1 and with the wildcard, with different roles and
\* metadata, looked up for api_1; api_2 is not marked
C14_Witness ==
    /\ RoleLookedUp
    /\ lastCall.args[1] = "api_1"
    /\ MarkedFor = {"api_1", None}
    /\ tagged._schemas["api_1"].graphql_type = "mutable_field"
    /\ tagged._schemas[None].graphql_type = "field"
    /\ tagged._schemas["api_1"].meta # tagged._schemas[None].meta
    /\ lastCall.ret.graphql_type = Some("mutable_field")

\* ------------------------------------------------------------------------
\* Properties of map_to_field (specification SpecField)
\* ------------------------------------------------------------------------
FieldBuilt == lastCall.op = "map_to_field"

\* class c has a query-flavor member without return annotation
Unannotated(c) == \E f \in QueryMembers(c) : f.ret = ""

\* C15: map_to_field for a callable without return type raises
\* GraphQLTypeMapInvalid, with a message naming the owning type and the field
\* key, and never returns None; and a schema build that comes to a type with
\* such a member ends with that error instead of a schema: reduce_query
\* raises it and marks no type invalid for it.
C15_MissingReturnTypeIsFatal ==
    /\ (FieldBuilt /\ lastCall.args[2].ret = "") =>
          /\ lastCall.ret.exc = "GraphQLTypeMapInvalid"
          /\ lastCall.ret.msg = [ name |-> lastCall.args[2].defined_on
                                           \o mappers[lastCall.args[1]].suffix,
                                  key |-> lastCall.args[2].key ]
          /\ ~ lastCall.ret.none
    /\ (lastReduce.done /\ \E c \in DeclReachable : Unannotated(c)) =>
          /\ lastReduce.exc = "GraphQLTypeMapInvalid"
          /\ \A o \in lastReduce.invalid_types : ~ Unannotated(heap[o].cls)
    /\ (lastBuild.done /\ lastBuild.built /\ \E c \in DeclReachable : Unannotated(c)) =>
          /\ lastBuild.exc = "GraphQLTypeMapInvalid"
          /\ lastBuild.ret = NoPair
          /\ api.cached = NoPair

\* A.s has no return annotation: the mutable-flavor mapper was asked for its
\* field, and a build came to A through Root.a
C15_Witness ==
    /\ FieldBuilt
    /\ lastCall.args[1] = 2
    /\ lastCall.args[2].ret = ""
    /\ lastCall.ret.msg = [name |-> "AMutable", key |-> "s"]
    /\ lastBuild.done /\ lastBuild.built
    /\ lastReduce.done
    /\ ~ Unannotated("Root") /\ Unannotated("A")
    /\ lastBuild.exc = "GraphQLTypeMapInvalid"

\* type object o is what the mapper of the last map_to_field call maps class
\* c to: a scalar, or a type that mapper built for c
IsMappingOf(o, c) ==
    /\ o \in HeapIds
    /\ heap[o].cls = c
    /\ IF map_to_scalar(c) # 0 THEN o = map_to_scalar(c)
       ELSE heap[o].by = lastCall.args[1]

Serialized == lastCall.op = "serialize"

\* the raw value has a name in the mapped enum
HasMappedName(v) == \E n \in DOMAIN decl.members : decl.members[n] = v

\* C17 (as stated): for every member of a mapped enum, whatever its value (0
\* and "" included), serialize returns the member's name, and that name looks
\* up the member's underlying value; for every raw value without a mapped
\* name serialize returns Undefined, not None.
C17_SerializeNeverCoerces ==
    Serialized =>
        LET value == lastCall.args[1]
            ret == lastCall.ret
        IN  /\ IsEnumMember(value) =>
                  /\ ret = PyStr(value.name)
                  /\ values(decl)[ret.str] = value.value
            /\ (~ IsEnumMember(value) /\ ~ HasMappedName(value)) => ret = Undefined

\* ------------------------------------------------------------------------
\* Properties of the mapping of enums (specification SpecMap)
\* ------------------------------------------------------------------------
\* C18 (as stated): a class that subclasses both str and Enum is mapped to
\* the enum type named "{ClassName}Enum", not to the String scalar, by the
\* output mapper (return types) and by the input mapper (argument types).
C18_StrEnumMapsToEnum ==
    (lastMap.done /\ lastMap.T = "SE") =>
        /\ lastMap.ret # 0
        /\ lastMap.ret # GraphQLString
        /\ heap[lastMap.ret].kind = "enum"
        /\ heap[lastMap.ret].name = "SEEnum"

\* ------------------------------------------------------------------------
\* Properties of reduce_mutation (specification SpecMutation)
\* ------------------------------------------------------------------------
MutationReduced == lastCall.op = "reduce_mutation" /\ lastCall.ret.exc = ""

\* the field a of the mutation root before and after reduce_mutation
FieldBefore == lastCall.args[1][1]

FieldAfter == CHOOSE f \in Range(heap[MutationRoot].fields) : f.key = "a"

\* the metadata the mapper holds for the field a of the mutation root
MetaOfField == MetaGet(mappers[2].meta, "RootMutable", "a")

\* a mutable field can be selected on type object o
SelectsMutable(o) == \E f \in Range(heap[o].fields) : f.mutable

\* C19 (as stated): after reduce_mutation a field tagged mutable_field whose
\* return type is an object type points to the query-flavor type of the
\* class, on which no mutable field can be selected, unless its metadata sets
\* resolve_to_mutable: then it keeps the mutable-flavor type and mutable
\* fields can be selected on the result.
C19_MutableFieldReturnsQueryType ==
    (MutationReduced /\ FieldBefore.mutable) =>
        /\ \E f \in Range(heap[MutationRoot].fields) : f.key = "a"
        /\ IF MetaOfField.resolve_to_mutable
           THEN FieldAfter.of = MutableA /\ SelectsMutable(FieldAfter.of)
           ELSE FieldAfter.of = QueryA /\ ~ SelectsMutable(FieldAfter.of)

\* C20 (as stated): when reduce_mutation substitutes the query-flavor type
\* for the inner type of a field, the new field type carries the same
\* wrappers, in the same order from the outermost inwards, as the old one.
C20_WrappersKeepTheirOrder ==
    (MutationReduced /\ FieldBefore.of = MutableA /\ FieldAfter.of = QueryA) =>
        FieldAfter.wraps = FieldBefore.wraps

\* the type objects as they were when reduce_mutation was called
HeapBefore == lastCall.args[2]

\* the keys the interfaces of the mutation root declare
RootInterfaceKeys ==
    UNION { FieldKeys(HeapBefore[HeapBefore[MutationRoot].interfaces[i]].fields) :
              i \in 1..Len(HeapBefore[MutationRoot].interfaces) }

\* field f of the mutation root is declared by an interface of the root, is
\* mutable-tagged, or has a mutable-bearing type
StaysOnRoot(f) ==
    \/ f.key \in RootInterfaceKeys
    \/ f.mutable
    \/ has_mutable([heap |-> HeapBefore], f.of, TRUE)

BuiltFor(m, c) ==
    { o \in DOMAIN heap : heap[o].kind = "object" /\ heap[o].cls = c /\ heap[o].by = m }

DirectivesApplied ==
    lastCall.op = "add_applied_directives" /\ lastCall.args[2] # << >>

\* the directive location of each GraphQL kind
KindLocation ==
    [ object |-> "OBJECT", interface |-> "INTERFACE", enum |-> "ENUM",
      input |-> "INPUT_OBJECT", union |-> "UNION", scalar |-> "SCALAR",
      field |-> "FIELD_DEFINITION" ]

\* directive list ds holds a directive that is not declared for location l
Unsupported(ds, l) == \E i \in 1..Len(ds) : l \notin ds[i].locations

\* C23 (as stated): applying directives to an element raises exactly when
\* one of them is not declared for the location of the element's kind
\* (scalar -> SCALAR among them); otherwise the directives are accepted and
\* recorded.
C23_RaisesIffLocationUnsupported ==
    DirectivesApplied =>
        LET kind == lastCall.args[1]
            ds == lastCall.args[2]
        IN  /\ (lastCall.ret.exc = "TypeError") <=> Unsupported(ds, KindLocation[kind])
            /\ lastCall.ret.exc = "" =>
                 << "k", kind, ds >> \in Range(mappers[1].applied_schema_directives)

\* ------------------------------------------------------------------------
\* Properties of the reverse registry (specification SpecReverse)
\* ------------------------------------------------------------------------
\* C24 (as stated): rmap of an object type a mapper built for class C, bare
\* or inside list / non-null wrappers, is the class C, whatever map calls
\* the mapper has answered since.
C24_RmapGivesTheClass ==
    (lastCall.op = "rmap" /\ heap[lastCall.args[2]].kind = "object") =>
        lastCall.ret = Py(heap[lastCall.args[2]].cls)

\* ------------------------------------------------------------------------
\* Properties of the Meta table (specification SpecReduce)
\* ------------------------------------------------------------------------
\* the members map_to_object enumerated for object type o
EnumeratedFor(o) ==
    Range(get_class_funcs(decl, heap[o].cls, mappers[heap[o].by].as_mutable))

\* C25 (as stated): for every object type a mapper has mapped, the mapper's
\* Meta table has an entry under (type name, snake_case member key) for
\* every enumerated member, with or without metadata, and the entry's
\* graphql_type is the member's role.
C25_MetaEntryForEveryMember ==
    \A o \in DOMAIN heap :
        (heap[o].kind = "object" /\ heap[o].by \in DOMAIN mappers /\ heap[o].lazy) =>
            \A func \in EnumeratedFor(o) :
                LET key == << heap[o].name, to_snake_case[func.key] >>
                    meta == mappers[heap[o].by].meta
                IN  /\ key \in DOMAIN meta
                    /\ meta[key].graphql_type = func.graphql_type

\* ------------------------------------------------------------------------
\* Properties of the class decorators (specification SpecClasses)
\* ------------------------------------------------------------------------
\* the class attributes before the last decorator was applied
ClassesBefore == lastCall.ret

\* C26 (as stated): after a decorator has marked the subclass Sub, the role
\* and the defined_on recorded for the class Base are, under every schema
\* identity, what they were before, and Base is an interface exactly if it
\* was one before.
C26_MarkingSubclassLeavesBase ==
    (lastCall.op = "tag_class" /\ lastCall.args[1] = "Sub") =>
        \A schema \in {"api_1", "api_2", None} :
            /\ \A key \in {"graphql_type", "defined_on"} :
                 get_value(ClassObj(tagged, "Base"), schema, key)
                    = get_value(ClassObj(ClassesBefore, "Base"), schema, key)
            /\ is_interface_class(tagged, "Base", schema)
                 <=> is_interface_class(ClassesBefore, "Base", schema)

TypeNames(h, schema) ==
    { h[t].name : t \in (schema.types \cup {schema.query, schema.mutation}) \ {0} }

\* C28: a build that follows a successful build of the same API object
\* leaves the API's directive list and type set as they were, and its schema
\* has the type names of the schema before
C28_RebuildChangesNothing ==
    [][ (api.cached # NoPair /\ Len(schemas') > Len(schemas))
          => /\ api'.directives = api.directives
             /\ api'.types = api.types
             /\ TypeNames(heap', schemas'[Len(schemas')])
                  = TypeNames(heap', schemas[Len(schemas)]) ]_vars

\* the executors bound to the root object executor e is bound to
SharesRoot(e) ==
    { d \in 1..Len(executors) : executors[d].root_value = executors[e].root_value }

\* C29: every executor is bound to the cached schema; one made without a
\* root_value is bound to a root object no earlier executor is bound to and
\* that is not the caller's own, and what is executed through it sees only
\* the increments made through it, as long as its root object was handed to
\* no other executor; one made with a root_value is bound to that object
C29_FreshRootUnlessGiven ==
    /\ \A e \in 1..Len(executors) :
         /\ executors[e].schema = executors[1].schema
         /\ executors[e].passed # 0 => executors[e].root_value = executors[e].passed
         /\ executors[e].passed = 0 =>
              /\ executors[e].root_value # 1
              /\ \A d \in 1..(e - 1) :
                   executors[d].root_value # executors[e].root_value
    /\ \A i \in 1..Len(results) :
         (/\ results[i].ok
          /\ executors[results[i].executor].passed = 0
          /\ SharesRoot(results[i].executor) = {results[i].executor})
           => results[i].val = Cardinality(IncrementsUpTo(i))

\* two executors were made without a root_value; increment executed through
\* the first returned 1 and s read through the second afterwards returned 0
C29_Witness ==
    /\ Len(executors) = 2
    /\ executors[1].passed = 0 /\ executors[2].passed = 0
    /\ \E i, j \in 1..Len(results) :
         /\ i < j
         /\ results[i].executor = 1 /\ results[i].key = "increment"
         /\ results[i].ok /\ results[i].val = 1
         /\ results[j].executor = 2 /\ results[j].key = "s"
         /\ results[j].ok /\ results[j].val = 0

\* C30: the request slot is set exactly while a resolution that is not
\* passed over is under way, and then holds the request of the outermost
\* one, the only one that set it; a resolution that found it set left it as
\* it was on the way in and on the way out; the resolution that set it left
\* it None when it finished, with a value or an exception; and every
\* resolution left the field slot None when it finished
C30_RequestOwnedByOutermost ==
    /\ frames = << >> => context = NoContext
    /\ \A i \in 1..Len(frames) :
         frames[i].owner <=> (i = 1 /\ ~ frames[i].skip)
    /\ frames # << >> =>
         context.request = IF frames[1].skip THEN NoRequest
                           ELSE [args |-> frames[1].field_name, by |-> 1]
    /\ (lastCall.op = "resolve" /\ lastCall.ret.before.request # NoRequest)
         => lastCall.ret.after.request = lastCall.ret.before.request
    /\ (lastCall.op = "finish" /\ ~ lastCall.args[1].skip)
         => /\ lastCall.ret.after.field = NoFieldContext
            /\ lastCall.ret.after.request =
                 IF lastCall.args[1].owner THEN NoRequest
                 ELSE lastCall.ret.before.request

\* an inner resolution has just ended with an exception while the outermost
\* one is still under way: the request of the outermost one is still set
C30_Witness ==
    /\ Len(frames) = 1
    /\ lastCall.op = "finish"
    /\ lastCall.ret.raised
    /\ ~ lastCall.args[1].owner /\ ~ lastCall.args[1].skip
    /\ context.request = [args |-> frames[1].field_name, by |-> 1]
    /\ context.field = NoFieldContext

====
